---- MODULE Spec2Model ----
(***************************************************************************)
(* Model of the append-only zero-knowledge set (AZKS) of the AKD           *)
(* repository: the history tree node (src/src/history_tree_node.rs), the   *)
(* tree-level operations of the AZKS (described by spec.md, sections 4.1   *)
(* and 4.3) and the auditor (src/akd/src/auditor.rs).                      *)
(*                                                                         *)
(* Digests are terms of a free algebra, so the hash is injective: two      *)
(* digests are equal exactly when they were built the same way.  The four  *)
(* constructors produce tuples of four different lengths.                  *)
(***************************************************************************)
EXTENDS Integers, Sequences, FiniteSets, TLC

\* The directory: azks is the stored AZKS, hashes its root hashes h_0, h_1, ...,
\* prev and batch the AZKS before the last batch and that batch, outcome the
\* result of the last batch.  The auditor: audited is the proof handed to
\* audit_verify together with hashes, result what audit_verify returned.
\* A batch taken step by step: inflight is the batch under way (its changeset
\* and the state store it writes to), result what a reader saw last.
\* The quorum key: quorum is the key handed to generate_shards with f, the
\* shards it returned and what reconstruct_shards made of some of them.
\* call is the last call of an operation of a node made on its own: the node,
\* the arguments and what the call returned.
VARIABLES azks, hashes, prev, batch, outcome, audited, result, inflight, quorum,
          call

vars ==
    <<azks, hashes, prev, batch, outcome, audited, result, inflight, quorum, call>>

-----------------------------------------------------------------------------
(* Bounds of the model *)

\* the largest epoch the directory reaches
MaxEpoch == 3

\* the largest number of leaves the directory holds
MaxLeaves == 3

\* the largest number of adjacent pairs handed to the auditor
MaxPairs == 2

\* the full-width leaf labels offered to the directory (width 3 in the model)
LeafLabels == {<<0, 0, 0>>, <<0, 0, 1>>, <<0, 1, 0>>, <<1, 0, 0>>}

\* the leaf values (byte strings) offered to the directory
Values == {<<17>>}

-----------------------------------------------------------------------------
(* Hasher capability: H::hash, H::merge, H::merge_with_int, hash_label *)

ARITY == 2

Hhash(bytes) == <<"hash", bytes>>

Hmerge(a, b) == <<"merge", a, b>>

Hmerge_with_int(a, n) == <<"merge_with_int", a, n, 0>>

hash_label(label) == <<"hash_label", label, 0, 0, 0>>

-----------------------------------------------------------------------------
(* Results of fallible functions: Result<T, E> *)

OkRes(v) == [err |-> "ok", val |-> v]

ErrRes(e) == [err |-> e, val |-> <<>>]

-----------------------------------------------------------------------------
(* NodeLabel and Direction.  A label is the sequence of its bits, most      *)
(* significant first; Direction::None is DirNone, Direction::Some(d) is d. *)

DirNone == -1

RootLabel == <<>>

Min(a, b) == IF a <= b THEN a ELSE b

\* number of leading bits on which the two labels agree
RECURSIVE CommonLen(_, _, _)
CommonLen(a, b, n) ==
    IF n < Min(Len(a), Len(b)) /\ a[n + 1] = b[n + 1]
    THEN CommonLen(a, b, n + 1)
    ELSE n

get_prefix(label, n) == SubSeq(label, 1, n)

\* direction of `other` below `label`: none unless label is a proper prefix
get_dir(label, other) ==
    IF Len(label) >= Len(other) THEN DirNone
    ELSE IF get_prefix(other, Len(label)) # label THEN DirNone
    ELSE other[Len(label) + 1]

\* <<lcp, dir_other, dir_self>>
get_longest_common_prefix_and_dirs(self, other) ==
    LET lcp == get_prefix(self, CommonLen(self, other, 0))
    IN  <<lcp, get_dir(lcp, other), get_dir(lcp, self)>>

-----------------------------------------------------------------------------
(* HistoryChildState and HistoryNodeState *)

DummyHash == Hhash(<<0>>)

DummyChild ==
    [dummy_marker |-> "Dummy", location |-> 0, label |-> RootLabel,
     hash_val |-> DummyHash, epoch_version |-> 0]

NewNodeState ==
    [value |-> DummyHash, child_states |-> [d \in 0 .. ARITY - 1 |-> DummyChild]]

-----------------------------------------------------------------------------
(* Storage of the per-(node, epoch) states: a function on <<label, epoch>>. *)
(* A world W carries the node store (db), the changeset (cs), the state    *)
(* store (st), the node counter, the first error raised and the number of  *)
(* stores made to each key of the state store (writes).  err_label is the  *)
(* label a CompressionError carries.                                       *)

Put(f, k, v) == [x \in DOMAIN f \cup {k} |-> IF x = k THEN v ELSE f[x]]

Fail(W, e) == IF W.err = "ok" THEN [W EXCEPT !.err = e] ELSE W

\* an error that carries the label of a node
FailAt(W, e, label) ==
    IF W.err = "ok" THEN [W EXCEPT !.err = e, !.err_label = label] ELSE W

get_state_map(st, node, key) ==
    IF <<node.label, key>> \in DOMAIN st
    THEN OkRes(st[<<node.label, key>>])
    ELSE ErrRes("StorageError")

\* how often the record of a key was stored
Stored(writes, k) == IF k \in DOMAIN writes THEN writes[k] ELSE 0

\* the record is stored at once; `writes` counts the stores of each key
set_state_map(W, node, key, val) ==
    [W EXCEPT !.st = Put(W.st, <<node.label, key>>, val),
              !.writes = Put(W.writes, <<node.label, key>>,
                             Stored(W.writes, <<node.label, key>>) + 1)]

tree_repr_has(W, location) == location \in DOMAIN W.cs \/ location \in DOMAIN W.db

tree_repr_node(W, location) ==
    IF location \in DOMAIN W.cs THEN W.cs[location] ELSE W.db[location]

\* the changeset after a get: a node read from storage is cached in it
tree_repr_get(W, location) ==
    IF W.err # "ok" THEN W
    ELSE IF location \in DOMAIN W.cs THEN W
    ELSE IF location \in DOMAIN W.db
         THEN [W EXCEPT !.cs = Put(W.cs, location, W.db[location])]
         ELSE Fail(W, "StorageError")

\* tree_repr_set that stores the node at once
tree_repr_set_through(W, location, node) ==
    IF W.err # "ok" THEN W
    ELSE [W EXCEPT !.cs = Put(W.cs, location, node),
                   !.db = Put(W.db, location, node)]

tree_repr_set(W, location, node) ==
    IF W.err # "ok" THEN W ELSE [W EXCEPT !.cs = Put(W.cs, location, node)]

-----------------------------------------------------------------------------
(* HistoryTreeNode: constructors and getters *)

NewNode(label, location, parent, node_type) ==
    [label |-> label, location |-> location, epochs |-> <<>>,
     parent |-> parent, node_type |-> node_type]

is_root(node) == node.node_type = "Root"

is_leaf(node) == node.node_type = "Leaf"

is_interior(node) == node.node_type = "Interior"

get_latest_epoch(node) ==
    IF Len(node.epochs) = 0 THEN ErrRes("NodeCreatedWithoutEpochs")
    ELSE OkRes(node.epochs[Len(node.epochs)])

get_birth_epoch(node) == node.epochs[1]

\* the loop of get_state_at_epoch and get_child_at_epoch: the last listed
\* epoch that is <= epoch, the birth epoch when there is none
RECURSIVE ChosenEp(_, _, _, _)
ChosenEp(epochs, epoch, i, chosen) ==
    IF i > Len(epochs) THEN chosen
    ELSE ChosenEp(epochs, epoch, i + 1,
                  IF epochs[i] <= epoch THEN epochs[i] ELSE chosen)

get_state_at_existing_epoch(st, node, epoch) ==
    IF get_state_map(st, node, epoch).err = "ok"
    THEN get_state_map(st, node, epoch)
    ELSE ErrRes("NodeDidNotHaveExistingStateAtEp")

\* get_state_at_epoch without the comparison with the birth epoch
get_state_at_epoch_unborn(st, node, epoch) ==
    IF Len(node.epochs) = 0 THEN ErrRes("panic")
    ELSE get_state_at_existing_epoch(
             st, node, ChosenEp(node.epochs, epoch, 1, get_birth_epoch(node)))

get_state_at_epoch(st, node, epoch) ==
    IF Len(node.epochs) = 0 THEN ErrRes("panic")
    ELSE IF get_birth_epoch(node) > epoch THEN ErrRes("NodeDidNotExistAtEp")
    ELSE get_state_at_existing_epoch(
             st, node, ChosenEp(node.epochs, epoch, 1, get_birth_epoch(node)))

get_child_at_existing_epoch(st, node, epoch, direction) ==
    IF direction = DirNone THEN ErrRes("DirectionIsNone")
    ELSE IF get_state_map(st, node, epoch).err # "ok" THEN ErrRes("StorageError")
    ELSE OkRes(get_state_map(st, node, epoch).val.child_states[direction])

\* get_child_at_epoch that stops at the first listed epoch
get_child_at_epoch_birth(st, node, epoch, direction) ==
    IF direction = DirNone THEN ErrRes("DirectionIsNone")
    ELSE IF Len(node.epochs) = 0 THEN ErrRes("panic")
    ELSE IF get_birth_epoch(node) > epoch THEN ErrRes("NoChildInTreeAtEpoch")
    ELSE get_child_at_existing_epoch(st, node, get_birth_epoch(node), direction)

get_child_at_epoch(st, node, epoch, direction) ==
    IF direction = DirNone THEN ErrRes("DirectionIsNone")
    ELSE IF Len(node.epochs) = 0 THEN ErrRes("panic")
    ELSE IF get_birth_epoch(node) > epoch THEN ErrRes("NoChildInTreeAtEpoch")
    ELSE get_child_at_existing_epoch(
             st, node, ChosenEp(node.epochs, epoch, 1, get_birth_epoch(node)),
             direction)

get_value(st, node) ==
    IF get_latest_epoch(node).err # "ok" THEN ErrRes(get_latest_epoch(node).err)
    ELSE IF get_state_map(st, node, get_latest_epoch(node).val).err # "ok"
         THEN ErrRes("StorageError")
    ELSE OkRes(get_state_map(st, node, get_latest_epoch(node).val).val.value)

get_value_at_epoch(st, node, epoch) ==
    IF get_state_at_epoch(st, node, epoch).err # "ok"
    THEN ErrRes(get_state_at_epoch(st, node, epoch).err)
    ELSE OkRes(get_state_at_epoch(st, node, epoch).val.value)

\* the fold of the children's hashes, stopped after the first child
FoldFirstChild(child_states, i, acc) == Hmerge(acc, child_states[0].hash_val)

\* the fold of the child hashes, left to right, starting from H::hash(&[])
RECURSIVE FoldChildren(_, _, _)
FoldChildren(child_states, i, acc) ==
    IF i >= ARITY THEN acc
    ELSE FoldChildren(child_states, i + 1, Hmerge(acc, child_states[i].hash_val))

hash_node(st, node, epoch) ==
    IF get_state_at_epoch(st, node, epoch).err # "ok"
    THEN ErrRes(get_state_at_epoch(st, node, epoch).err)
    ELSE OkRes(FoldChildren(get_state_at_epoch(st, node, epoch).val.child_states,
                            0, Hhash(<<>>)))

\* the value of a leaf folded with its label, as its parent stores it
get_value_with_label_at_epoch(st, node, epoch) ==
    IF get_state_at_epoch(st, node, epoch).err # "ok"
    THEN ErrRes(get_state_at_epoch(st, node, epoch).err)
    ELSE IF is_leaf(node)
         THEN OkRes(Hmerge(get_state_at_epoch(st, node, epoch).val.value,
                           hash_label(node.label)))
    ELSE OkRes(FoldChildren(get_state_at_epoch(st, node, epoch).val.child_states,
                            0, Hhash(<<>>)))

get_value_without_label_at_epoch(st, node, epoch) ==
    IF is_leaf(node) THEN get_value_at_epoch(st, node, epoch)
    ELSE IF get_state_at_epoch(st, node, epoch).err # "ok"
         THEN ErrRes(get_state_at_epoch(st, node, epoch).err)
    ELSE OkRes(FoldChildren(get_state_at_epoch(st, node, epoch).val.child_states,
                            0, Hhash(<<>>)))

\* the last direction whose child carries the label of `node`
RECURSIVE DirectionOf(_, _, _, _)
DirectionOf(child_states, label, i, found) ==
    IF i >= ARITY THEN found
    ELSE DirectionOf(child_states, label, i + 1,
                     IF child_states[i].label = label THEN i ELSE found)

get_direction_at_ep(st, node, other, ep) ==
    IF get_state_at_epoch(st, node, ep).err # "ok"
    THEN ErrRes(get_state_at_epoch(st, node, ep).err)
    ELSE OkRes(DirectionOf(get_state_at_epoch(st, node, ep).val.child_states,
                           other.label, 0, DirNone))

\* the child state of a node, its hash left unset
to_node_child_state_unset(st, node) ==
    IF get_value(st, node).err # "ok" THEN ErrRes(get_value(st, node).err)
    ELSE OkRes([dummy_marker |-> "Real", location |-> node.location,
                label |-> node.label,
                hash_val |-> DummyHash,
                epoch_version |-> get_latest_epoch(node).val])

to_node_unhashed_child_state(st, node) ==
    IF get_value(st, node).err # "ok" THEN ErrRes(get_value(st, node).err)
    ELSE OkRes([dummy_marker |-> "Real", location |-> node.location,
                label |-> node.label,
                hash_val |-> Hmerge(get_value(st, node).val, hash_label(node.label)),
                epoch_version |-> get_latest_epoch(node).val])

-----------------------------------------------------------------------------
(* HistoryTreeNode: mutators.  A mutator of `self` returns the world and   *)
(* the caller's copy of the node: [w |-> W, self |-> node].                 *)

Ret(W, self) == [w |-> W, self |-> self]

push_epoch(node, epoch) == [node EXCEPT !.epochs = Append(node.epochs, epoch)]

\* set_child_without_hash that records the epoch whenever it creates a state,
\* also when the node already lists it
set_child_without_hash_push(W, self, epoch, direction, child_node) ==
    IF W.err # "ok" THEN Ret(W, self)
    ELSE IF direction = DirNone
         THEN Ret(Fail(W, "NoDirectionInSettingChild"), self)
    ELSE IF get_state_map(W.st, self, epoch).err = "ok"
         THEN Ret(set_state_map(W, self, epoch,
                      [get_state_map(W.st, self, epoch).val
                           EXCEPT !.child_states[direction] = child_node]),
                  self)
    ELSE IF get_latest_epoch(self).err # "ok"
         THEN Ret(Fail(W, get_latest_epoch(self).err), self)
    ELSE LET latest == get_latest_epoch(self).val
             latest_st == get_state_at_epoch(W.st, self, latest)
             baseline == IF latest_st.err = "ok" THEN latest_st.val ELSE NewNodeState
             self1 == push_epoch(self, epoch)
             W1 == tree_repr_set(set_state_map(W, self, epoch, baseline),
                                 self.location, self1)
         IN  Ret(set_state_map(W1, self1, epoch,
                     [baseline EXCEPT !.child_states[direction] = child_node]),
                 self1)

\* set_child_without_hash that starts the state of a new epoch from an empty
\* state instead of the latest one
set_child_without_hash_fresh(W, self, epoch, direction, child_node) ==
    IF W.err # "ok" THEN Ret(W, self)
    ELSE IF direction = DirNone
         THEN Ret(Fail(W, "NoDirectionInSettingChild"), self)
    ELSE IF get_state_map(W.st, self, epoch).err = "ok"
         THEN Ret(set_state_map(W, self, epoch,
                      [get_state_map(W.st, self, epoch).val
                           EXCEPT !.child_states[direction] = child_node]),
                  self)
    ELSE IF get_latest_epoch(self).err # "ok"
         THEN Ret(Fail(W, get_latest_epoch(self).err), self)
    ELSE LET latest == get_latest_epoch(self).val
             self1 == IF latest # epoch THEN push_epoch(self, epoch) ELSE self
             W1 == tree_repr_set(set_state_map(W, self, epoch, NewNodeState),
                                 self.location, self1)
         IN  Ret(set_state_map(W1, self1, epoch,
                     [NewNodeState EXCEPT !.child_states[direction] = child_node]),
                 self1)

\* set_child_without_hash that changes the state of the latest epoch in place
\* instead of creating the state of a new epoch
set_child_without_hash_inplace(W, self, epoch, direction, child_node) ==
    IF W.err # "ok" THEN Ret(W, self)
    ELSE IF direction = DirNone
         THEN Ret(Fail(W, "NoDirectionInSettingChild"), self)
    ELSE IF get_latest_epoch(self).err # "ok"
         THEN Ret(Fail(W, get_latest_epoch(self).err), self)
    ELSE LET latest == get_latest_epoch(self).val
             latest_st == get_state_at_epoch(W.st, self, latest)
             baseline == IF latest_st.err = "ok" THEN latest_st.val ELSE NewNodeState
         IN  Ret(set_state_map(W, self, latest,
                     [baseline EXCEPT !.child_states[direction] = child_node]),
                 self)

set_child_without_hash(W, self, epoch, direction, child_node) ==
    IF W.err # "ok" THEN Ret(W, self)
    ELSE IF direction = DirNone
         THEN Ret(Fail(W, "NoDirectionInSettingChild"), self)
    ELSE IF get_state_map(W.st, self, epoch).err = "ok"
         THEN Ret(set_state_map(W, self, epoch,
                      [get_state_map(W.st, self, epoch).val
                           EXCEPT !.child_states[direction] = child_node]),
                  self)
    ELSE IF get_latest_epoch(self).err # "ok"
         THEN Ret(Fail(W, get_latest_epoch(self).err), self)
    ELSE LET latest == get_latest_epoch(self).val
             latest_st == get_state_at_epoch(W.st, self, latest)
             baseline == IF latest_st.err = "ok" THEN latest_st.val ELSE NewNodeState
             self1 == IF latest # epoch THEN push_epoch(self, epoch) ELSE self
             W1 == tree_repr_set(set_state_map(W, self, epoch, baseline),
                                 self.location, self1)
         IN  \* the retry finds the state just stored
             Ret(set_state_map(W1, self1, epoch,
                     [baseline EXCEPT !.child_states[direction] = child_node]),
                 self1)

\* set_node_child_without_hash that puts a child without a direction at
\* direction 0
set_node_child_without_hash_anydir(W, self, epoch, dir, child) ==
    IF W.err # "ok" THEN Ret(W, self)
    ELSE IF to_node_unhashed_child_state(W.st, child).err # "ok"
         THEN Ret(Fail(W, to_node_unhashed_child_state(W.st, child).err), self)
    ELSE set_child_without_hash(W, self, epoch, IF dir = DirNone THEN 0 ELSE dir,
                                to_node_unhashed_child_state(W.st, child).val)

set_node_child_without_hash(W, self, epoch, dir, child) ==
    IF W.err # "ok" THEN Ret(W, self)
    ELSE IF to_node_unhashed_child_state(W.st, child).err # "ok"
         THEN Ret(Fail(W, to_node_unhashed_child_state(W.st, child).err), self)
    ELSE set_child_without_hash(W, self, epoch, dir,
                                to_node_unhashed_child_state(W.st, child).val)

\* *self = tree_repr_get(changeset, self.location)?
Reload(W, self) ==
    LET W1 == tree_repr_get(W, self.location)
    IN  IF W1.err # "ok" THEN Ret(W1, self)
        ELSE Ret(W1, tree_repr_node(W1, self.location))

\* the parent's child state for `self` takes the new hash
set_hash_at_parent(W, self, epoch, new_hash_val) ==
    IF W.err # "ok" THEN W
    ELSE LET parent == tree_repr_node(W, self.parent)
             pst == get_state_map(W.st, parent, epoch)
             s_dir == get_direction_at_ep(W.st, parent, self, epoch)
         IN  IF pst.err # "ok" THEN Fail(W, "ParentNextEpochInvalid")
             ELSE IF s_dir.err # "ok" THEN Fail(W, s_dir.err)
             ELSE IF s_dir.val = DirNone
             THEN Fail(W, "HashUpdateOnlyAllowedAfterNodeInsertion")
             ELSE tree_repr_set(
                      set_state_map(W, parent, epoch,
                          [pst.val EXCEPT
                             !.child_states[s_dir.val].hash_val = new_hash_val]),
                      self.parent, parent)

\* a parent whose latest epoch is older gets a state for `epoch` first
refresh_parent(R, W1, le, self, epoch) ==
    IF le.val < epoch THEN tree_repr_set(R.w, self.parent, R.self) ELSE W1

update_hash_at_parent(W, self, epoch, new_hash_val) ==
    IF W.err # "ok" THEN W
    ELSE IF is_root(self) THEN W
    ELSE LET W1 == tree_repr_get(W, self.parent)
             parent0 == tree_repr_node(W1, self.parent)
             le == get_latest_epoch(parent0)
             dir_self ==
                 get_longest_common_prefix_and_dirs(parent0.label, self.label)[2]
         IN  IF W1.err # "ok" THEN W1
             ELSE IF le.err # "ok" THEN Fail(W1, le.err)
             ELSE set_hash_at_parent(
                      refresh_parent(
                          set_node_child_without_hash(W1, parent0, epoch, dir_self, self),
                          W1, le, self, epoch),
                      self, epoch, new_hash_val)

\* the value of an interior node or the root at `epoch` becomes its hash
set_value_to_hash(W, self, epoch, hn) ==
    LET hash_digest == IF is_root(self) THEN Hmerge(hn, hash_label(self.label)) ELSE hn
        epoch_state == get_state_at_epoch(W.st, self, epoch).val
    IN  update_hash_at_parent(
            tree_repr_set(set_state_map(W, self, epoch,
                                        [epoch_state EXCEPT !.value = hash_digest]),
                          self.location, self),
            self, epoch, Hmerge(hash_digest, hash_label(self.label)))

\* update_hash that places the value of a leaf in its parent without the
\* label of the leaf
update_hash_unlabelled(W, self, epoch) ==
    IF W.err # "ok" THEN W
    ELSE IF is_leaf(self)
    THEN LET v == get_value(W.st, self)
         IN  IF v.err # "ok" THEN Fail(W, v.err)
             ELSE update_hash_at_parent(W, self, epoch, v.val)
    ELSE LET hn == hash_node(W.st, self, epoch)
         IN  IF hn.err # "ok" THEN Fail(W, hn.err)
             ELSE set_value_to_hash(W, self, epoch, hn.val)

update_hash(W, self, epoch) ==
    IF W.err # "ok" THEN W
    ELSE IF is_leaf(self)
    THEN LET v == get_value(W.st, self)
         IN  IF v.err # "ok" THEN Fail(W, v.err)
             ELSE update_hash_at_parent(W, self, epoch,
                                        Hmerge(v.val, hash_label(self.label)))
    ELSE LET hn == hash_node(W.st, self, epoch)
         IN  IF hn.err # "ok" THEN Fail(W, hn.err)
             ELSE set_value_to_hash(W, self, epoch, hn.val)

\* update_hash of the node stored at `location`
update_hash_at(W, location, epoch) ==
    LET W1 == tree_repr_get(W, location)
    IN  IF W1.err # "ok" THEN W1
        ELSE update_hash(W1, tree_repr_node(W1, location), epoch)

\* the root and the leaf are stored; with hashing, the leaf and then the root
\* are hashed
InsertAtRootStore(R1, leaf, epoch, hashing) ==
    LET W2 == tree_repr_set(tree_repr_set(R1.w, R1.self.location, R1.self),
                            leaf.location, leaf)
    IN  Reload(IF hashing
               THEN update_hash_at(update_hash(W2, leaf, epoch),
                                   R1.self.location, epoch)
               ELSE W2,
               R1.self)

\* the root takes the new leaf at the other direction
InsertAtRoot_otherdir(W, self, new_leaf, epoch, dir_leaf, hashing) ==
    InsertAtRootStore(
        set_node_child_without_hash(W, self, epoch, 1 - dir_leaf,
                                    [new_leaf EXCEPT !.parent = self.location]),
        [new_leaf EXCEPT !.parent = self.location], epoch, hashing)

\* the root takes the new leaf at a direction where it has no child yet
InsertAtRoot(W, self, new_leaf, epoch, dir_leaf, hashing) ==
    InsertAtRootStore(
        set_node_child_without_hash(W, self, epoch, dir_leaf,
                                    [new_leaf EXCEPT !.parent = self.location]),
        [new_leaf EXCEPT !.parent = self.location], epoch, hashing)

\* the new interior node and the parent are stored
InsertBySplitStore(W, new_node, parent, self1) ==
    Reload(tree_repr_set(tree_repr_set(W, new_node.location, new_node),
                         parent.location, parent),
           self1)

\* the new interior node is read again and hashed; the copy read is stored
InsertBySplitHashNode(We, new_node_location, parent, self1, epoch) ==
    InsertBySplitStore(
        IF We.err # "ok" THEN We
        ELSE update_hash(We, tree_repr_node(We, new_node_location), epoch),
        tree_repr_node(We, new_node_location), parent, self1)

\* with hashing: the leaf, the pushed-down node and the new interior node
InsertBySplitHash(Rc, new_node, leaf, self1, epoch, hashing) ==
    IF hashing
    THEN InsertBySplitHashNode(
             tree_repr_get(update_hash(update_hash(Rc.w, leaf, epoch), self1, epoch),
                           new_node.location),
             new_node.location, Rc.self, self1, epoch)
    ELSE InsertBySplitStore(Rc.w, new_node, Rc.self, self1)

\* the parent takes the new interior node where it had `self`
InsertBySplitParent(Rb, parent, self_dir_in_parent, leaf, self1, epoch, hashing) ==
    InsertBySplitHash(
        set_node_child_without_hash(Rb.w, parent, epoch, self_dir_in_parent, Rb.self),
        Rb.self, leaf, self1, epoch, hashing)

\* the new interior node takes `self` as its other child
InsertBySplitSelf(Ra, parent, self_dir_in_parent, leaf, self1, epoch, dir_self, hashing) ==
    InsertBySplitParent(
        set_node_child_without_hash(Ra.w, Ra.self, epoch, dir_self, self1),
        parent, self_dir_in_parent, leaf, self1, epoch, hashing)

\* InsertBySplit with the directions of the leaf and of the node exchanged
InsertBySplit_swapped(W, self, new_leaf, epoch, lcs_label, dir_leaf, dir_self, hashing) ==
    LET W1 == tree_repr_get(W, self.parent)
        parent == tree_repr_node(W1, self.parent)
        self_dir_in_parent == get_direction_at_ep(W1.st, parent, self, epoch)
        new_node == push_epoch(NewNode(lcs_label, W1.num_nodes,
                                       parent.location, "Interior"), epoch)
        leaf == [new_leaf EXCEPT !.parent = new_node.location]
        self1 == [self EXCEPT !.parent = new_node.location]
        W4 == tree_repr_set(
                  tree_repr_set(
                      [tree_repr_set(W1, new_node.location, new_node)
                           EXCEPT !.num_nodes = W1.num_nodes + 1],
                      leaf.location, leaf),
                  self1.location, self1)
    IN  IF W1.err # "ok" THEN Ret(W1, self)
        ELSE IF self_dir_in_parent.err # "ok"
        THEN Ret(Fail(W1, self_dir_in_parent.err), self)
        ELSE InsertBySplitSelf(
                 set_node_child_without_hash(W4, new_node, epoch, dir_self, leaf),
                 parent, self_dir_in_parent.val, leaf, self1, epoch, dir_leaf,
                 hashing)

\* the node is pushed down below a new interior node labelled with the
\* longest common prefix; the new leaf becomes its sibling
InsertBySplit(W, self, new_leaf, epoch, lcs_label, dir_leaf, dir_self, hashing) ==
    LET W1 == tree_repr_get(W, self.parent)
        parent == tree_repr_node(W1, self.parent)
        self_dir_in_parent == get_direction_at_ep(W1.st, parent, self, epoch)
        new_node == push_epoch(NewNode(lcs_label, W1.num_nodes,
                                       parent.location, "Interior"), epoch)
        leaf == [new_leaf EXCEPT !.parent = new_node.location]
        self1 == [self EXCEPT !.parent = new_node.location]
        W4 == tree_repr_set(
                  tree_repr_set(
                      [tree_repr_set(W1, new_node.location, new_node)
                           EXCEPT !.num_nodes = W1.num_nodes + 1],
                      leaf.location, leaf),
                  self1.location, self1)
    IN  IF W1.err # "ok" THEN Ret(W1, self)
        ELSE IF self_dir_in_parent.err # "ok"
        THEN Ret(Fail(W1, self_dir_in_parent.err), self)
        ELSE InsertBySplitSelf(
                 set_node_child_without_hash(W4, new_node, epoch, dir_leaf, leaf),
                 parent, self_dir_in_parent.val, leaf, self1, epoch, dir_self,
                 hashing)

\* after the insertion below: with hashing the node is read again, hashed and
\* the copy read is stored
InsertBelowDone(R, self, epoch, hashing) ==
    LET W2 == tree_repr_get(R.w, self.location)
    IN  Reload(IF ~hashing THEN R.w
               ELSE IF W2.err # "ok" THEN W2
               ELSE tree_repr_set(
                        update_hash(W2, tree_repr_node(W2, self.location), epoch),
                        self.location, tree_repr_node(W2, self.location)),
               self)

\* insert_single_leaf_helper with a node that lacks the child taking the leaf
\* as the root does
RECURSIVE insert_single_leaf_helper_attach(_, _, _, _, _)
insert_single_leaf_helper_attach(W, self, new_leaf, epoch, hashing) ==
    IF W.err # "ok" THEN Ret(W, self)
    ELSE
    LET lcp == get_longest_common_prefix_and_dirs(self.label, new_leaf.label)
        lcs_label == lcp[1]
        dir_leaf == lcp[2]
        dir_self == lcp[3]
        \* the root gives the leaf its location
        leaf == IF is_root(self) THEN [new_leaf EXCEPT !.location = W.num_nodes]
                ELSE new_leaf
        W0 == IF is_root(self)
              THEN [tree_repr_set(W, W.num_nodes, leaf)
                        EXCEPT !.num_nodes = W.num_nodes + 1]
              ELSE W
        latest == get_latest_epoch(self)
        child_state == get_child_at_epoch(W0.st, self, latest.val, dir_leaf)
        W1 == tree_repr_get(W0, child_state.val.location)
    IN  IF is_root(self) /\ latest.err # "ok" THEN Ret(Fail(W0, latest.err), self)
        ELSE IF is_root(self) /\ child_state.err # "ok"
        THEN Ret(Fail(W0, child_state.err), self)
        ELSE IF is_root(self) /\ child_state.val.dummy_marker = "Dummy"
        THEN InsertAtRoot(W0, self, leaf, epoch, dir_leaf, hashing)
        ELSE IF dir_self # DirNone
        THEN InsertBySplit(W0, self, leaf, epoch, lcs_label, dir_leaf, dir_self,
                           hashing)
        ELSE \* the current node is equal to the longest common prefix
        IF latest.err # "ok" THEN Ret(Fail(W0, latest.err), self)
        ELSE IF child_state.err # "ok" THEN Ret(Fail(W0, child_state.err), self)
        ELSE IF child_state.val.dummy_marker = "Dummy"
        THEN InsertAtRoot(W0, self, leaf, epoch, dir_leaf, hashing)
        ELSE IF W1.err # "ok" THEN Ret(W1, self)
        ELSE InsertBelowDone(
                 insert_single_leaf_helper_attach(
                     W1, tree_repr_node(W1, child_state.val.location),
                     leaf, epoch, hashing),
                 self, epoch, hashing)

\* Inserts a single leaf node and updates the required hashes, if hashing
RECURSIVE insert_single_leaf_helper(_, _, _, _, _)
insert_single_leaf_helper(W, self, new_leaf, epoch, hashing) ==
    IF W.err # "ok" THEN Ret(W, self)
    ELSE
    LET lcp == get_longest_common_prefix_and_dirs(self.label, new_leaf.label)
        lcs_label == lcp[1]
        dir_leaf == lcp[2]
        dir_self == lcp[3]
        \* the root gives the leaf its location
        leaf == IF is_root(self) THEN [new_leaf EXCEPT !.location = W.num_nodes]
                ELSE new_leaf
        W0 == IF is_root(self)
              THEN [tree_repr_set(W, W.num_nodes, leaf)
                        EXCEPT !.num_nodes = W.num_nodes + 1]
              ELSE W
        latest == get_latest_epoch(self)
        child_state == get_child_at_epoch(W0.st, self, latest.val, dir_leaf)
        W1 == tree_repr_get(W0, child_state.val.location)
    IN  IF is_root(self) /\ latest.err # "ok" THEN Ret(Fail(W0, latest.err), self)
        ELSE IF is_root(self) /\ child_state.err # "ok"
        THEN Ret(Fail(W0, child_state.err), self)
        ELSE IF is_root(self) /\ child_state.val.dummy_marker = "Dummy"
        THEN InsertAtRoot(W0, self, leaf, epoch, dir_leaf, hashing)
        ELSE IF dir_self # DirNone
        THEN InsertBySplit(W0, self, leaf, epoch, lcs_label, dir_leaf, dir_self,
                           hashing)
        ELSE \* the current node is equal to the longest common prefix
        IF latest.err # "ok" THEN Ret(Fail(W0, latest.err), self)
        ELSE IF child_state.err # "ok" THEN Ret(Fail(W0, child_state.err), self)
        ELSE IF child_state.val.dummy_marker = "Dummy"
        THEN Ret(FailAt(W0, "CompressionError", self.label), self)
        ELSE IF W1.err # "ok" THEN Ret(W1, self)
        ELSE InsertBelowDone(
                 insert_single_leaf_helper(
                     W1, tree_repr_node(W1, child_state.val.location),
                     leaf, epoch, hashing),
                 self, epoch, hashing)

insert_single_leaf(W, self, new_leaf, epoch) ==
    insert_single_leaf_helper(W, self, new_leaf, epoch, TRUE)

insert_single_leaf_without_hash(W, self, new_leaf, epoch) ==
    insert_single_leaf_helper(W, self, new_leaf, epoch, FALSE)

-----------------------------------------------------------------------------
(* Constructors of nodes with their first state *)

EmptyWorld ==
    [db |-> <<>>, cs |-> <<>>, st |-> <<>>, num_nodes |-> 0, err |-> "ok",
     writes |-> <<>>, err_label |-> <<>>]

\* get_empty_root(azks_id, Some(ep)): the node and the state store after it
get_empty_root(W, ep) ==
    Ret(set_state_map(W, NewNode(RootLabel, 0, 0, "Root"), ep, NewNodeState),
        push_epoch(NewNode(RootLabel, 0, 0, "Root"), ep))

LeafNode(label, location, parent, birth_epoch) ==
    push_epoch(NewNode(label, location, parent, "Leaf"), birth_epoch)

\* the value a leaf node stores for raw bytes
LeafValue(value) == Hmerge(Hhash(<<>>), Hhash(value))

get_leaf_node(W, label, location, value, parent, birth_epoch) ==
    Ret(set_state_map(W, LeafNode(label, location, parent, birth_epoch), birth_epoch,
                      [NewNodeState EXCEPT !.value = LeafValue(value)]),
        LeafNode(label, location, parent, birth_epoch))

get_leaf_node_without_hashing(W, label, location, value, parent, birth_epoch) ==
    Ret(set_state_map(W, LeafNode(label, location, parent, birth_epoch), birth_epoch,
                      [NewNodeState EXCEPT !.value = value]),
        LeafNode(label, location, parent, birth_epoch))

-----------------------------------------------------------------------------
(* AZKS: [db, st, num_nodes, latest_epoch].  db is the node store           *)
(* (location -> HistoryTreeNode), st the state store.                       *)

RootLocation == 0

Node(label, hash) == [label |-> label, hash |-> hash]

AzksNew ==
    LET R == get_empty_root(EmptyWorld, 0)
    IN  [db |-> Put(<<>>, RootLocation, R.self), st |-> R.w.st,
         num_nodes |-> 1, latest_epoch |-> 0]

WorldOf(az) ==
    [db |-> az.db, cs |-> <<>>, st |-> az.st, num_nodes |-> az.num_nodes,
     err |-> "ok", writes |-> <<>>, err_label |-> <<>>]

\* first pass: one leaf node per entry, inserted from the root without hashing
RECURSIVE InsertLeaves(_, _, _, _)
InsertLeaves(R, leaves, i, epoch) ==
    IF R.w.err # "ok" \/ i > Len(leaves) THEN R
    ELSE LET Rl == get_leaf_node_without_hashing(
                       R.w, leaves[i].label, R.w.num_nodes, leaves[i].hash,
                       RootLocation, epoch)
         IN  InsertLeaves(
                 insert_single_leaf_without_hash(Rl.w, R.self, Rl.self, epoch),
                 leaves, i + 1, epoch)

\* the locations on the path from a node up to the root
RECURSIVE PathToRoot(_, _)
PathToRoot(W, location) ==
    IF ~tree_repr_has(W, location) THEN {}
    ELSE IF is_root(tree_repr_node(W, location)) THEN {location}
    ELSE {location} \cup PathToRoot(W, tree_repr_node(W, location).parent)

\* the nodes touched by a batch: its new leaves and their ancestors
Touched(W, first_new) ==
    UNION {PathToRoot(W, l) :
             l \in {x \in DOMAIN W.cs : x >= first_new /\ is_leaf(W.cs[x])}}

\* bottom-up order: the longest label first
Deepest(W, locs) ==
    CHOOSE l \in locs :
        \A m \in locs :
            \/ Len(tree_repr_node(W, l).label) > Len(tree_repr_node(W, m).label)
            \/ /\ Len(tree_repr_node(W, l).label) = Len(tree_repr_node(W, m).label)
               /\ l <= m

\* second pass: recompute the hashes of the touched nodes, bottom-up
RECURSIVE RehashAll(_, _, _)
RehashAll(W, locs, epoch) ==
    IF W.err # "ok" \/ locs = {} THEN W
    ELSE RehashAll(update_hash_at(W, Deepest(W, locs), epoch),
                   locs \ {Deepest(W, locs)}, epoch)

\* the changeset is written to the node store
Commit(az, W) ==
    [az EXCEPT !.db = [l \in DOMAIN az.db \cup DOMAIN W.cs |->
                          IF l \in DOMAIN W.cs THEN W.cs[l] ELSE az.db[l]],
               !.st = W.st,
               !.num_nodes = W.num_nodes]

\* the hashes of the nodes the inserted leaves touched
RehashTouched(W, first_new, epoch) == RehashAll(W, Touched(W, first_new), epoch)

\* [azks, err, writes]; on an error the changeset is dropped, the state
\* records stored on the way stay
CommitOrDrop(az, W) ==
    IF W.err = "ok"
    THEN [azks |-> Commit(az, W), err |-> "ok", writes |-> W.writes]
    ELSE [azks |-> [az EXCEPT !.st = W.st], err |-> W.err, writes |-> W.writes]

batch_insert_leaves_helper(az, leaves, append_only_usage) ==
    LET epoch == az.latest_epoch
        bound == [i \in 1 .. Len(leaves) |->
                     IF append_only_usage THEN leaves[i]
                     ELSE Node(leaves[i].label,
                               Hmerge_with_int(leaves[i].hash, epoch))]
        W0 == tree_repr_get(WorldOf(az), RootLocation)
    IN  CommitOrDrop(
            az,
            RehashTouched(
                InsertLeaves(Ret(W0, tree_repr_node(W0, RootLocation)),
                             bound, 1, epoch).w,
                az.num_nodes, epoch))

\* the normal path: the epoch advances and every value is bound to it
batch_insert_leaves(az, leaves) ==
    LET e == az.latest_epoch + 1
    IN  batch_insert_leaves_helper(
            [az EXCEPT !.latest_epoch = e],
            [i \in 1 .. Len(leaves) |->
                Node(leaves[i].label, Hmerge_with_int(leaves[i].hash, e))],
            TRUE)

get_root_hash(az) ==
    LET root == az.db[RootLocation]
        v == get_value_without_label_at_epoch(az.st, root, az.latest_epoch)
    IN  IF v.err # "ok" THEN ErrRes(v.err)
        ELSE OkRes(Hmerge(v.val, hash_label(root.label)))

\* the leaves of the trie at an epoch, in the order of the walk from the root
RECURSIVE LeavesAt(_, _, _)
LeavesAt(az, location, epoch) ==
    LET node == az.db[location]
        Below(dir) ==
            LET c == get_child_at_epoch(az.st, node, epoch, dir)
            IN  IF c.err = "ok" /\ c.val.dummy_marker = "Real"
                THEN LeavesAt(az, c.val.location, epoch) ELSE <<>>
    IN  IF is_leaf(node) THEN <<location>>
        ELSE Below(0) \o Below(1)

\* SingleAppendOnlyProof for the adjacent pair (start_epoch, end_epoch)
SingleProof(az, start_epoch, end_epoch) ==
    LET leaves == LeavesAt(az, RootLocation, end_epoch)
        Entry(l) == Node(az.db[l].label,
                         get_value_without_label_at_epoch(
                             az.st, az.db[l], end_epoch).val)
        Old(l) == get_birth_epoch(az.db[l]) <= start_epoch
        New(l) == /\ get_birth_epoch(az.db[l]) > start_epoch
                  /\ get_birth_epoch(az.db[l]) <= end_epoch
        olds == SelectSeq(leaves, Old)
        news == SelectSeq(leaves, New)
    IN  [unchanged_nodes |-> [i \in 1 .. Len(olds) |-> Entry(olds[i])],
         inserted |-> [i \in 1 .. Len(news) |-> Entry(news[i])]]

\* AppendOnlyProof: one single proof per adjacent pair, and their epochs
generate_append_only_proof(az, start_epoch, end_epoch) ==
    [proofs |-> [i \in 1 .. end_epoch - start_epoch |->
                    SingleProof(az, start_epoch + i - 1, start_epoch + i)],
     epochs |-> [i \in 1 .. end_epoch - start_epoch |-> start_epoch + i - 1]]

-----------------------------------------------------------------------------
(* Auditor *)

\* the two root hashes the auditor has computed, or the error raised
ReconstructResult(computed_start_root_hash, computed_end_root_hash) ==
    IF computed_end_root_hash.err # "ok" THEN [err |-> computed_end_root_hash.err]
    ELSE [err |-> "ok", start |-> computed_start_root_hash.val,
          end |-> computed_end_root_hash.val]

ReconstructEnd(A3, computed_start_root_hash) ==
    IF A3.err # "ok" THEN [err |-> A3.err]
    ELSE ReconstructResult(computed_start_root_hash, get_root_hash(A3.azks))

\* azks.latest_epoch = epoch - 2
AssignLatestEpochBefore(az, epoch) == [az EXCEPT !.latest_epoch = epoch - 2]

\* azks.latest_epoch = epoch - 1
AssignLatestEpoch(az, epoch) == [az EXCEPT !.latest_epoch = epoch - 1]

\* the inserted entries are bound to the epoch and inserted at epoch - 1
ReconstructInsert(az, computed_start_root_hash, proof, epoch) ==
    IF computed_start_root_hash.err # "ok"
    THEN [err |-> computed_start_root_hash.err]
    ELSE ReconstructEnd(
             batch_insert_leaves_helper(
                 AssignLatestEpoch(az, epoch),
                 [i \in 1 .. Len(proof.inserted) |->
                     Node(proof.inserted[i].label,
                          Hmerge_with_int(proof.inserted[i].hash, epoch))],
                 TRUE),
             computed_start_root_hash)

ReconstructStart(A1, proof, epoch) ==
    IF A1.err # "ok" THEN [err |-> A1.err]
    ELSE ReconstructInsert(A1.azks, get_root_hash(A1.azks), proof, epoch)

\* the root hashes the auditor computes for one pair, or the error raised
Reconstruct(proof, epoch) ==
    ReconstructStart(
        batch_insert_leaves_helper(AzksNew, proof.unchanged_nodes, TRUE),
        proof, epoch)

\* the answer to the comparison of the start root hash alone
StartVerified(r, start_hash, end_hash) ==
    IF r.err # "ok" THEN r.err
    ELSE IF r.start # start_hash THEN "VerifyAppendOnlyProof"
    ELSE "Ok"

\* verify_consecutive_append_only without the comparison of the end root hash
verify_start_only(proof, start_hash, end_hash, epoch) ==
    StartVerified(Reconstruct(proof, epoch), start_hash, end_hash)

\* the answer to the two comparisons
Verified(r, start_hash, end_hash) ==
    IF r.err # "ok" THEN r.err
    ELSE IF ~(r.start = start_hash /\ r.end = end_hash) THEN "VerifyAppendOnlyProof"
    ELSE "Ok"

verify_consecutive_append_only(proof, start_hash, end_hash, epoch) ==
    Verified(Reconstruct(proof, epoch), start_hash, end_hash)

\* the loop of audit_verify with the result of each pair dropped
RECURSIVE AuditFromUnchecked(_, _, _, _)
AuditFromUnchecked(hs, proof, i, last) ==
    IF i > Len(hs) - 1 THEN "Ok"
    ELSE IF i > Len(proof.proofs) \/ i > Len(proof.epochs) THEN "panic"
    ELSE AuditFromUnchecked(hs, proof, i + 1, last)

\* pairs i = 1 .. Len(hs) - 1 in turn; `last` is the answer to the pair
\* before, and the first answer that is not Ok ends the audit
RECURSIVE AuditFrom(_, _, _, _)
AuditFrom(hs, proof, i, last) ==
    IF last # "Ok" THEN last
    ELSE IF i > Len(hs) - 1 THEN "Ok"
    ELSE IF i > Len(proof.proofs) \/ i > Len(proof.epochs) THEN "panic"
    ELSE AuditFrom(hs, proof, i + 1,
                   verify_consecutive_append_only(
                       proof.proofs[i], hs[i], hs[i + 1], proof.epochs[i] + 1))

audit_verify(hs, proof) ==
    IF Len(hs) = 0 THEN "panic" ELSE AuditFrom(hs, proof, 1, "Ok")

-----------------------------------------------------------------------------
(* The directory: batches of new leaves, one epoch each *)

NoProof == [proofs |-> <<>>, epochs |-> <<>>]

\* no quorum key in hand
NoQuorum == [phase |-> "none"]

\* no operation of a node called on its own
NoCall == [op |-> "none"]

\* no batch under way
Idle == [phase |-> "idle", w |-> EmptyWorld, self |-> NewNode(RootLabel, 0, 0, "Root"),
         leaves |-> <<>>, i |-> 0]

LeafLabelsIn(az) ==
    {az.db[l].label : l \in {x \in DOMAIN az.db : is_leaf(az.db[x])}}

\* the sequences of at most n leaves with distinct labels from L
RECURSIVE Batches(_, _)
Batches(L, n) ==
    IF n = 0 THEN {<<>>}
    ELSE {<<>>} \cup
         UNION {{<<Node(l, LeafValue(v))>> \o b : b \in Batches(L \ {l}, n - 1)} :
                  <<l, v>> \in L \X Values}

Init ==
    /\ azks = AzksNew
    /\ hashes = <<get_root_hash(AzksNew).val>>
    /\ prev = AzksNew
    /\ batch = <<>>
    /\ outcome = "new"
    /\ audited = NoProof
    /\ result = "none"
    /\ inflight = Idle
    /\ quorum = NoQuorum
    /\ call = NoCall

\* the directory after a batch: the AZKS, its root hash, the batch
Published(r, leaves) ==
    /\ azks' = r.azks
    /\ hashes' = Append(hashes, get_root_hash(r.azks).val)
    /\ prev' = azks
    /\ batch' = leaves
    /\ outcome' = r.err
    /\ UNCHANGED audited

BatchInsert ==
    /\ azks.latest_epoch < MaxEpoch
    /\ \E leaves \in Batches(LeafLabels \ LeafLabelsIn(azks),
                             MaxLeaves - Cardinality(LeafLabelsIn(azks))) :
          Published(batch_insert_leaves(azks, leaves), leaves)
    /\ UNCHANGED <<result, inflight, quorum, call>>

Next == BatchInsert

Spec == Init /\ [][Next]_vars

(* A directory whose callers choose the labels freely: labels of several   *)
(* lengths, labels that are a prefix of one another, labels already in the *)
(* tree.                                                                    *)

AnyLabels ==
    {<<0>>, <<1>>, <<0, 0>>, <<0, 1>>, <<0, 1, 1>>, <<1, 0, 0, 0>>, <<1, 0, 0, 1>>}

InsertAny ==
    /\ azks.latest_epoch < MaxEpoch
    /\ \E l \in AnyLabels : \E v \in Values :
          Published(batch_insert_leaves(azks, <<Node(l, LeafValue(v))>>),
                    <<Node(l, LeafValue(v))>>)
    /\ UNCHANGED <<result, inflight, quorum, call>>

NextAny == InsertAny

SpecAny == Init /\ [][NextAny]_vars

-----------------------------------------------------------------------------
(* The auditor on its own: audit_verify applied to any hashes and proof     *)

AuditEntry1 == Node(<<0, 0, 0>>, LeafValue(<<17>>))

AuditEntry2 == Node(<<1, 0, 0>>, LeafValue(<<17>>))

AuditSingles ==
    {[unchanged_nodes |-> u, inserted |-> n] :
        u \in {<<>>, <<AuditEntry1>>}, n \in {<<>>, <<AuditEntry1>>, <<AuditEntry2>>}}

\* root hashes the auditor can rebuild from these proofs at epoch 1
AuditRoots ==
    {Reconstruct([unchanged_nodes |-> <<>>, inserted |-> n], 1).end :
        n \in {<<>>, <<AuditEntry1>>, <<AuditEntry2>>}}

\* the sequences over S of length at most n
RECURSIVE SeqsUpTo(_, _)
SeqsUpTo(S, n) ==
    IF n = 0 THEN {<<>>}
    ELSE SeqsUpTo(S, n - 1) \cup
         {Append(q, x) : q \in {t \in SeqsUpTo(S, n - 1) : Len(t) = n - 1}, x \in S}

InitAudit ==
    /\ azks = AzksNew
    /\ prev = AzksNew
    /\ batch = <<>>
    /\ outcome = "new"
    /\ hashes \in SeqsUpTo(AuditRoots, MaxPairs + 1)
    /\ audited \in {[proofs |-> ps, epochs |-> es] :
                     ps \in SeqsUpTo(AuditSingles, MaxPairs),
                     es \in SeqsUpTo({0, 1}, MaxPairs)}
    /\ result = "none"
    /\ inflight = Idle
    /\ quorum = NoQuorum
    /\ call = NoCall

AuditVerify ==
    /\ result = "none"
    /\ result' = audit_verify(hashes, audited)
    /\ UNCHANGED <<azks, hashes, prev, batch, outcome, audited, inflight, quorum, call>>

NextAudit == AuditVerify

SpecAudit == InitAudit /\ [][NextAudit]_vars

-----------------------------------------------------------------------------
(* Claims *)

\* the proof of the adjacent pair (i - 1, i), i = 1 .. latest epoch
PairProof(i) == generate_append_only_proof(azks, i - 1, i)

PairHashes(i) == <<hashes[i], hashes[i + 1]>>

\* C1: for every adjacent pair of epochs the directory has reached, the audit
\* of [h_i, h_{i+1}] with generate_append_only_proof(i, i+1) returns Ok
C1_RoundTrip ==
    \A i \in 1 .. Len(hashes) - 1 :
        audit_verify(PairHashes(i), PairProof(i)) = "Ok"

\* the reorderings of a batch
Reorderings(b) ==
    {[i \in 1 .. Len(b) |-> b[f[i]]] : f \in Permutations(1 .. Len(b))}

\* C2: the leaves of the last batch, inserted into the state before it in any
\* order, give the root hash the batch gave
C2_OrderIndependent ==
    \A b \in Reorderings(batch) :
        /\ batch_insert_leaves(prev, b).err = "ok"
        /\ get_root_hash(batch_insert_leaves(prev, b).azks).val = hashes[Len(hashes)]

\* a batch of at least two leaves whose order decides where the nodes are stored
C2_Witness ==
    /\ Len(batch) >= 2
    /\ outcome = "ok"
    /\ \E b \in Reorderings(batch) : batch_insert_leaves(prev, b).azks.db # azks.db

\* what a tampered entry may carry: any leaf label, and a value bound to any
\* epoch or not bound at all
TamperHashes ==
    {LeafValue(v) : v \in Values \cup {<<34>>}}
        \cup {Hmerge_with_int(LeafValue(v), e) :
                 v \in Values \cup {<<34>>}, e \in 0 .. MaxEpoch}

TamperEntries == {Node(l, h) : l \in LeafLabels, h \in TamperHashes}

ReplaceInserted(p, k, entry) == [p EXCEPT !.proofs[1].inserted[k] = entry]

RemoveAt(s, k) == SubSeq(s, 1, k - 1) \o SubSeq(s, k + 1, Len(s))

RemoveUnchanged(p, k) ==
    [p EXCEPT !.proofs[1].unchanged_nodes = RemoveAt(@, k)]

\* C3: a proof with one inserted entry replaced by a different one is rejected
C3_TamperDetected ==
    \A i \in 1 .. Len(hashes) - 1 :
        \A k \in 1 .. Len(PairProof(i).proofs[1].inserted) :
            \A entry \in TamperEntries \ {PairProof(i).proofs[1].inserted[k]} :
                audit_verify(PairHashes(i), ReplaceInserted(PairProof(i), k, entry))
                    # "Ok"

\* C4: a proof with one unchanged_nodes entry removed is rejected, and the
\* root rebuilt from the remaining unchanged_nodes differs from h_i
C4_DeletedLeafDetected ==
    \A i \in 1 .. Len(hashes) - 1 :
        \A k \in 1 .. Len(PairProof(i).proofs[1].unchanged_nodes) :
            LET p == RemoveUnchanged(PairProof(i), k)
                r == Reconstruct(p.proofs[1], p.epochs[1] + 1)
            IN  /\ audit_verify(PairHashes(i), p) = "VerifyAppendOnlyProof"
                /\ r.err = "ok"
                /\ r.start # hashes[i]

\* a pair whose proof lists a leaf as unchanged, with the leaf removed
C4_Witness ==
    \E i \in 1 .. Len(hashes) - 1 :
        /\ Len(PairProof(i).proofs[1].unchanged_nodes) >= 2
        /\ Len(PairProof(i).proofs[1].inserted) >= 1
        /\ audit_verify(PairHashes(i), RemoveUnchanged(PairProof(i), 1))
               = "VerifyAppendOnlyProof"

\* the hashes of epochs 0, 1, 2 with the last two exchanged
Replayed == <<hashes[1], hashes[3], hashes[2]>>

\* C5 as stated: [h_0, h_2, h_1] with the proofs of 0->1 and 1->2 is always
\* answered VerifyAppendOnlyProof
C5_ReplayRejected_Original ==
    Len(hashes) >= 3 =>
        audit_verify(Replayed, generate_append_only_proof(azks, 0, 2))
            = "VerifyAppendOnlyProof"

\* C5: [h_0, h_2, h_1] with the proofs of 0->1 and 1->2 is answered
\* VerifyAppendOnlyProof whenever h_1 and h_2 differ
C5_ReplayRejected ==
    (Len(hashes) >= 3 /\ hashes[2] # hashes[3]) =>
        audit_verify(Replayed, generate_append_only_proof(azks, 0, 2))
            = "VerifyAppendOnlyProof"

\* two epochs that both inserted leaves, replayed in the wrong order
C5_Witness ==
    /\ Len(hashes) >= 3
    /\ hashes[1] # hashes[2]
    /\ hashes[2] # hashes[3]
    /\ audit_verify(Replayed, generate_append_only_proof(azks, 0, 2))
           = "VerifyAppendOnlyProof"

FullProof == generate_append_only_proof(azks, 0, Len(hashes) - 1)

SwapEpochs(p, a, b) ==
    [p EXCEPT !.epochs = [@ EXCEPT ![a] = p.epochs[b], ![b] = p.epochs[a]]]

RECURSIVE NodesAt(_, _, _)
NodesAt(az, location, epoch) ==
    LET node == az.db[location]
        Below(dir) ==
            LET c == get_child_at_epoch(az.st, node, epoch, dir)
            IN  IF c.err = "ok" /\ c.val.dummy_marker = "Real"
                THEN NodesAt(az, c.val.location, epoch) ELSE {}
    IN  {location} \cup (IF is_leaf(node) THEN {} ELSE Below(0) \cup Below(1))

\* the child states held at epoch by the nodes reachable at epoch
ChildStatesAt(az, epoch) ==
    LET holders == {l \in NodesAt(az, RootLocation, epoch) : ~is_leaf(az.db[l])}
        Held(l) == {get_child_at_epoch(az.st, az.db[l], epoch, d) : d \in 0 .. ARITY - 1}
    IN  {c.val : c \in {x \in UNION {Held(l) : l \in holders} :
                            x.err = "ok" /\ x.val.dummy_marker = "Real"}}

SlotsAt(az, epoch) == {<<c.label, c.hash_val>> : c \in ChildStatesAt(az, epoch)}

LeafSlotsAt(az, epoch) ==
    {<<c.label, c.hash_val>> :
        c \in {x \in ChildStatesAt(az, epoch) : is_leaf(az.db[x.location])}}

\* C9 as stated: every (label, hash_val) pair of a node's state at an epoch
\* is still held, unchanged, at every later epoch
C9_AppendOnly_Original ==
    \A e \in 0 .. azks.latest_epoch : \A e2 \in e + 1 .. azks.latest_epoch :
        SlotsAt(azks, e) \subseteq SlotsAt(azks, e2)

\* C9: every (label, hash_val) pair of a leaf held at an epoch is still held,
\* unchanged, at every later epoch
C9_AppendOnly ==
    \A e \in 0 .. azks.latest_epoch : \A e2 \in e + 1 .. azks.latest_epoch :
        LeafSlotsAt(azks, e) \subseteq LeafSlotsAt(azks, e2)

\* leaves held at epoch 1, more leaves held two epochs or more later, and an
\* interior pair of epoch 1 that is not held any more
C9_Witness ==
    /\ azks.latest_epoch >= 2
    /\ LeafSlotsAt(azks, 1) # {}
    /\ LeafSlotsAt(azks, azks.latest_epoch) # LeafSlotsAt(azks, 1)
    /\ ~(SlotsAt(azks, 1) \subseteq SlotsAt(azks, azks.latest_epoch))

\* the leaves reachable at the latest epoch
LatestLeaves(az) ==
    {l \in NodesAt(az, RootLocation, az.latest_epoch) : is_leaf(az.db[l])}

\* C10: a batch removes no node (same location, label and node_type) and
\* leaves every reachable leaf reachable with the value stored before
C10_NodesNeverRemoved ==
    /\ \A l \in DOMAIN prev.db :
        /\ l \in DOMAIN azks.db
        /\ azks.db[l].location = prev.db[l].location
        /\ azks.db[l].label = prev.db[l].label
        /\ azks.db[l].node_type = prev.db[l].node_type
    /\ \A l \in LatestLeaves(prev) :
        /\ l \in LatestLeaves(azks)
        /\ get_value(azks.st, azks.db[l]) = get_value(prev.st, prev.db[l])

\* a batch of new leaves has gone into a directory that held leaves, and a
\* leaf held before now hangs under another parent
C10_Witness ==
    /\ Len(batch) > 0
    /\ LatestLeaves(prev) # {}
    /\ \E l \in LatestLeaves(prev) : azks.db[l].parent # prev.db[l].parent

\* the pair i of the audit: both rebuilt root hashes are the given ones
PairMatches(i) ==
    /\ i <= Len(audited.proofs)
    /\ i <= Len(audited.epochs)
    /\ LET r == Reconstruct(audited.proofs[i], audited.epochs[i] + 1)
       IN  /\ r.err = "ok"
           /\ r.start = hashes[i]
           /\ r.end = hashes[i + 1]

AllPairsMatch == \A i \in 1 .. Len(hashes) - 1 : PairMatches(i)

\* C7: audit_verify returns Ok exactly when every pair passes both
\* comparisons, and VerifyAppendOnlyProof when some pair does not
C7_AuditResult ==
    result # "none" =>
        /\ result = "Ok" <=> AllPairsMatch
        /\ ~AllPairsMatch => result = "VerifyAppendOnlyProof"

\* C8: audit_verify returns Ok or VerifyAppendOnlyProof, whatever its input
C8_SingleFailureKind ==
    result # "none" => result \in {"Ok", "VerifyAppendOnlyProof"}

\* the state a stored node has at its latest epoch
LatestState(az, l) == get_state_map(az.st, az.db[l], get_latest_epoch(az.db[l]).val)

InteriorNodes(az) == {l \in DOMAIN az.db : is_interior(az.db[l])}

\* C11: after a successful batch every interior node has a Real child in both
\* directions in its latest state
C11_InteriorHasTwoChildren ==
    outcome = "ok" =>
        \A l \in InteriorNodes(azks) :
            /\ LatestState(azks, l).err = "ok"
            /\ \A d \in 0 .. ARITY - 1 :
                   LatestState(azks, l).val.child_states[d].dummy_marker = "Real"

\* a successful batch after which an interior node has a state of a later
\* epoch than its first
C11_Witness ==
    /\ outcome = "ok"
    /\ \E l \in InteriorNodes(azks) : Len(azks.db[l].epochs) >= 2

StrictlyIncreasing(q) == \A i \in 1 .. Len(q) - 1 : q[i] < q[i + 1]

\* C12: the epochs of every node are strictly increasing: a batch adds its
\* epoch to a node at most once
C12_EpochsStrictlyIncreasing ==
    \A l \in DOMAIN azks.db :
        /\ Len(azks.db[l].epochs) >= 1
        /\ StrictlyIncreasing(azks.db[l].epochs)

\* a batch of several leaves that share the root, which existed before, and
\* an interior node below it
C12_Witness ==
    /\ Len(batch) >= 2
    /\ outcome = "ok"
    /\ Len(azks.db[RootLocation].epochs) >= 3
    /\ \E l \in InteriorNodes(azks) :
           Cardinality({i \in 1 .. Len(batch) :
               get_prefix(batch[i].label, Len(azks.db[l].label))
                   = azks.db[l].label}) >= 2

NonRootNodes(az) == {l \in DOMAIN az.db : ~is_root(az.db[l])}

ParentOf(az, l) == az.db[az.db[l].parent]

Elems(q) == {q[i] : i \in 1 .. Len(q)}

Max(a, b) == IF a >= b THEN a ELSE b

\* the parent of node l has, at epoch e, a child state that points to l
PointsTo(az, l, e) ==
    \E d \in 0 .. ARITY - 1 :
        /\ get_child_at_epoch(az.st, ParentOf(az, l), e, d).err = "ok"
        /\ get_child_at_epoch(az.st, ParentOf(az, l), e, d).val.dummy_marker = "Real"
        /\ get_child_at_epoch(az.st, ParentOf(az, l), e, d).val.location = l
        /\ get_child_at_epoch(az.st, ParentOf(az, l), e, d).val.label = az.db[l].label

\* the first epoch at which both node l and its parent exist
FirstShared(az, l) ==
    Max(get_birth_epoch(az.db[l]), get_birth_epoch(ParentOf(az, l)))

\* C13 as stated: the parent of every non-root node N points to N at an epoch
\* not after N.epochs[0], and N.epochs[0] is one of the parent's epochs
C13_ParentPointsAtBirth_Original ==
    \A l \in NonRootNodes(azks) :
        /\ \E e \in 0 .. get_birth_epoch(azks.db[l]) : PointsTo(azks, l, e)
        /\ get_birth_epoch(azks.db[l]) \in Elems(ParentOf(azks, l).epochs)

\* C13: the parent P of every non-root node N has the first epoch at which
\* both exist, max(N.epochs[0], P.epochs[0]), among its epochs and points to N
\* at that epoch and at every later one
C13_ParentPointsAtBirth ==
    \A l \in NonRootNodes(azks) :
        /\ FirstShared(azks, l) \in Elems(ParentOf(azks, l).epochs)
        /\ \A e \in FirstShared(azks, l) .. azks.latest_epoch : PointsTo(azks, l, e)

\* a node that was pushed down below an interior node created at a later
\* epoch, and that epoch is not the latest
C13_Witness ==
    /\ outcome = "ok"
    /\ \E l \in NonRootNodes(azks) :
           /\ is_interior(ParentOf(azks, l))
           /\ get_birth_epoch(azks.db[l]) < get_birth_epoch(ParentOf(azks, l))
           /\ get_birth_epoch(ParentOf(azks, l)) < azks.latest_epoch

\* the interior nodes on the path from the root to node l
RECURSIVE InteriorAbove(_, _)
InteriorAbove(az, l) ==
    IF is_root(az.db[l]) THEN {}
    ELSE (IF is_interior(ParentOf(az, l)) THEN {az.db[l].parent} ELSE {})
             \cup InteriorAbove(az, az.db[l].parent)

LeafNodes(az) == {l \in DOMAIN az.db : is_leaf(az.db[l])}

\* C14: the label of every leaf is strictly longer than the label of every
\* interior node on the path from the root to the leaf, and that label is a
\* prefix of the leaf's
C14_LeafBelowInterior ==
    \A l \in LeafNodes(azks) : \A p \in InteriorAbove(azks, l) :
        /\ Len(azks.db[l].label) > Len(azks.db[p].label)
        /\ get_prefix(azks.db[l].label, Len(azks.db[p].label)) = azks.db[p].label
        /\ ~is_leaf(ParentOf(azks, l))

\* a successful batch after which leaves of different label lengths lie
\* below one interior node
C14_Witness ==
    /\ outcome = "ok"
    /\ \E l1, l2 \in LeafNodes(azks) :
           /\ Len(azks.db[l1].label) # Len(azks.db[l2].label)
           /\ InteriorAbove(azks, l1) \cap InteriorAbove(azks, l2) # {}

\* max{ep \in E : ep <= e}, for e >= E[0]
MaxAtMost(E, e) ==
    CHOOSE m \in Elems(E) : m <= e /\ \A x \in Elems(E) : x <= e => x <= m

\* C15: for every stored node and every epoch e from its first epoch on,
\* get_state_at_epoch(e) returns the state stored at the greatest listed epoch
\* <= e and get_child_at_epoch(e, dir) the child of that state in dir
C15_PiecewiseConstant ==
    \A l \in DOMAIN azks.db :
        \A e \in get_birth_epoch(azks.db[l]) .. MaxEpoch + 1 :
            /\ <<azks.db[l].label, MaxAtMost(azks.db[l].epochs, e)>> \in DOMAIN azks.st
            /\ get_state_at_epoch(azks.st, azks.db[l], e)
                   = OkRes(azks.st[<<azks.db[l].label,
                                     MaxAtMost(azks.db[l].epochs, e)>>])
            /\ \A d \in 0 .. ARITY - 1 :
                   get_child_at_epoch(azks.st, azks.db[l], e, d)
                       = OkRes(azks.st[<<azks.db[l].label,
                                         MaxAtMost(azks.db[l].epochs, e)>>]
                                   .child_states[d])

\* a node whose listed epochs leave out an epoch between two of them, with
\* different states at the two
C15_Witness ==
    \E l \in DOMAIN azks.db : \E i \in 1 .. Len(azks.db[l].epochs) - 1 :
        /\ azks.db[l].epochs[i] + 1 < azks.db[l].epochs[i + 1]
        /\ get_state_at_epoch(azks.st, azks.db[l], azks.db[l].epochs[i] + 1)
               # get_state_at_epoch(azks.st, azks.db[l], azks.db[l].epochs[i + 1])

\* the epochs before the first epoch of a stored node
EpochsBefore(az, l) == 0 .. get_birth_epoch(az.db[l]) - 1

\* C16 as stated: before the first epoch of a node both lookups fail with
\* NodeDidNotExistAtEp
C16_BeforeBirth_Original ==
    \A l \in DOMAIN azks.db : \A e \in EpochsBefore(azks, l) :
        /\ get_state_at_epoch(azks.st, azks.db[l], e) = ErrRes("NodeDidNotExistAtEp")
        /\ \A d \in 0 .. ARITY - 1 :
               get_child_at_epoch(azks.st, azks.db[l], e, d)
                   = ErrRes("NodeDidNotExistAtEp")

\* C16: before the first epoch of a node get_state_at_epoch fails with
\* NodeDidNotExistAtEp and get_child_at_epoch with NoChildInTreeAtEpoch for a
\* direction, with DirectionIsNone without one
C16_BeforeBirth ==
    \A l \in DOMAIN azks.db : \A e \in EpochsBefore(azks, l) :
        /\ get_state_at_epoch(azks.st, azks.db[l], e) = ErrRes("NodeDidNotExistAtEp")
        /\ \A d \in 0 .. ARITY - 1 :
               get_child_at_epoch(azks.st, azks.db[l], e, d)
                   = ErrRes("NoChildInTreeAtEpoch")
        /\ get_child_at_epoch(azks.st, azks.db[l], e, DirNone)
               = ErrRes("DirectionIsNone")

\* an interior node created at the second epoch or later
C16_Witness ==
    \E l \in InteriorNodes(azks) : get_birth_epoch(azks.db[l]) >= 2

Refused == outcome \notin {"new", "ok"}

\* C17: a batch that returns an error leaves the node store and the state
\* store as they were before it
C17_FailedInsertNoEffect ==
    Refused => azks.db = prev.db /\ azks.st = prev.st

\* how often the last batch stored each (node, epoch) record
BatchWrites == batch_insert_leaves(prev, batch).writes

\* C18: a batch stores the record of a (node, epoch) at most once
C18_StateWrittenOnce ==
    \A k \in DOMAIN BatchWrites : BatchWrites[k] <= 1

\* latest_epoch of the Azks that verify_consecutive_append_only builds: when
\* new, after the unchanged nodes, after the assignment, after the inserted
\* entries
EphemeralEpochs(single, epoch) ==
    LET A1 == batch_insert_leaves_helper(AzksNew, single.unchanged_nodes, TRUE)
        A2 == AssignLatestEpoch(A1.azks, epoch)
        A3 == batch_insert_leaves_helper(
                  A2,
                  [i \in 1 .. Len(single.inserted) |->
                      Node(single.inserted[i].label,
                           Hmerge_with_int(single.inserted[i].hash, epoch))],
                  TRUE)
    IN  <<AzksNew.latest_epoch, A1.azks.latest_epoch, A2.latest_epoch,
          A3.azks.latest_epoch>>

NonDecreasing(q) == \A i \in 1 .. Len(q) - 1 : q[i] <= q[i + 1]

PairEphemeralEpochs(i) ==
    EphemeralEpochs(PairProof(i).proofs[1], PairProof(i).epochs[1] + 1)

\* C19: latest_epoch of the directory's Azks does not decrease from one batch
\* to the next, and neither does latest_epoch of the Azks the auditor builds
\* for each adjacent pair of epochs
C19_LatestEpochMonotone ==
    /\ prev.latest_epoch <= azks.latest_epoch
    /\ \A i \in 1 .. azks.latest_epoch : NonDecreasing(PairEphemeralEpochs(i))

\* the auditor's Azks for a pair with unchanged and inserted leaves is moved
\* from epoch 0 to a later epoch
C19_Witness ==
    /\ prev.latest_epoch < azks.latest_epoch
    /\ \E i \in 1 .. azks.latest_epoch :
           /\ Len(PairProof(i).proofs[1].unchanged_nodes) >= 1
           /\ Len(PairProof(i).proofs[1].inserted) >= 1
           /\ PairEphemeralEpochs(i)[2] < PairEphemeralEpochs(i)[3]

-----------------------------------------------------------------------------
(* A batch taken step by step, with a reader in between: the leaves are     *)
(* inserted one at a time, the touched nodes are rehashed, the changeset is *)
(* committed.  The node store changes at the commit; set_state_map writes   *)
(* to the state store at once.                                              *)

StepLabels == {<<0, 0, 0>>, <<0, 0, 1>>, <<1, 0, 0>>}

\* the storage a reader finds: the node store and the state store as the
\* batch under way has left them
Live ==
    IF inflight.phase = "idle" THEN azks
    ELSE [azks EXCEPT !.db = inflight.w.db, !.st = inflight.w.st]

\* what a reader sees at an epoch: the root hash and the walk from the root
ReadAt(az, epoch) ==
    [root |-> get_value_at_epoch(az.st, az.db[RootLocation], epoch),
     nodes |-> {<<l, az.db[l].label, az.db[l].node_type,
                  get_state_at_epoch(az.st, az.db[l], epoch)>> :
                    l \in NodesAt(az, RootLocation, epoch)}]

Started(W0, leaves) ==
    [phase |-> "insert", w |-> W0, self |-> tree_repr_node(W0, RootLocation),
     leaves |-> leaves, i |-> 1]

Begin ==
    /\ inflight.phase = "idle"
    /\ azks.latest_epoch < MaxEpoch
    /\ \E leaves \in Batches(StepLabels \ LeafLabelsIn(azks),
                             MaxLeaves - Cardinality(LeafLabelsIn(azks))) :
          inflight' = Started(tree_repr_get(WorldOf(azks), RootLocation), leaves)
    /\ UNCHANGED <<azks, hashes, prev, batch, outcome, audited, result, quorum, call>>

Inserted(R) ==
    [inflight EXCEPT !.w = R.w, !.self = R.self, !.i = inflight.i + 1]

InsertNext ==
    /\ inflight.phase = "insert"
    /\ inflight.i <= Len(inflight.leaves)
    /\ inflight' =
           Inserted(InsertLeaves(
               Ret(inflight.w, inflight.self),
               <<Node(inflight.leaves[inflight.i].label,
                      Hmerge_with_int(inflight.leaves[inflight.i].hash,
                                      azks.latest_epoch + 1))>>,
               1, azks.latest_epoch + 1))
    /\ UNCHANGED <<azks, hashes, prev, batch, outcome, audited, result, quorum, call>>

Rehashed(W) == [inflight EXCEPT !.w = W, !.phase = "commit"]

Rehash ==
    /\ inflight.phase = "insert"
    /\ inflight.i > Len(inflight.leaves)
    /\ inflight' = Rehashed(RehashTouched(inflight.w, azks.num_nodes,
                                          azks.latest_epoch + 1))
    /\ UNCHANGED <<azks, hashes, prev, batch, outcome, audited, result, quorum, call>>

CommitStep ==
    /\ inflight.phase = "commit"
    /\ Published(CommitOrDrop([azks EXCEPT !.latest_epoch = azks.latest_epoch + 1],
                              inflight.w),
                 inflight.leaves)
    /\ inflight' = Idle
    /\ UNCHANGED <<result, quorum, call>>

\* a reader at the epoch before the batch under way, or at the epoch of it
Reader ==
    /\ \E e \in {azks.latest_epoch, azks.latest_epoch + 1} :
          result' = [epoch |-> e, latest |-> azks.latest_epoch,
                     phase |-> inflight.phase, i |-> inflight.i,
                     seen |-> ReadAt(Live, e)]
    /\ UNCHANGED <<azks, hashes, prev, batch, outcome, audited, inflight, quorum, call>>

NextSteps == Begin \/ InsertNext \/ Rehash \/ CommitStep \/ Reader

\* the directory is new and a reader has seen it
InitSteps ==
    /\ azks = AzksNew
    /\ hashes = <<get_root_hash(AzksNew).val>>
    /\ prev = AzksNew
    /\ batch = <<>>
    /\ outcome = "new"
    /\ audited = NoProof
    /\ result = [epoch |-> 0, latest |-> 0, phase |-> "idle", i |-> 0,
                 seen |-> ReadAt(AzksNew, 0)]
    /\ inflight = Idle
    /\ quorum = NoQuorum
    /\ call = NoCall

SpecSteps == InitSteps /\ [][NextSteps]_vars

\* the batch under way has stored state records for its own epoch only and
\* has left the node store and every stored record of earlier epochs alone
NoPartialBatch ==
    inflight.phase # "idle" =>
        /\ \A k \in DOMAIN inflight.w.writes : k[2] = azks.latest_epoch + 1
        /\ \A k \in DOMAIN azks.st :
               k \in DOMAIN inflight.w.st /\ inflight.w.st[k] = azks.st[k]
        /\ inflight.w.db = azks.db

\* the committed batch is the batch as a whole, and the snapshot of the
\* epoch before it is the one that was there before it
CompleteBatch ==
    /\ outcome = "new" => azks = AzksNew
    /\ outcome # "new" =>
           outcome = "ok" /\ azks = batch_insert_leaves(prev, batch).azks
    /\ ReadAt(azks, prev.latest_epoch) = ReadAt(prev, prev.latest_epoch)
    /\ \A i \in 1 .. Len(batch) :
           \E n \in ReadAt(azks, azks.latest_epoch).nodes :
               n[2] = batch[i].label /\ n[3] = "Leaf"

\* C20: a reader at any point of a batch for epoch e_old + 1 sees the
\* snapshot of e_old as it was before the batch, whether it reads at e_old or
\* at e_old + 1; a reader after the commit sees the snapshot of the whole
\* batch; the batch under way touches nothing a reader of e_old can reach
C20_SnapshotIsolation ==
    /\ result.seen = ReadAt(azks, Min(result.epoch, result.latest))
    /\ \A e \in {azks.latest_epoch, azks.latest_epoch + 1} :
           ReadAt(Live, e) = ReadAt(azks, azks.latest_epoch)
    /\ NoPartialBatch
    /\ CompleteBatch

\* a reader has read a tree that was not empty while a batch had inserted
\* some of its leaves and not yet the others, and the batch has gone on since
C20_Witness ==
    /\ result.phase = "insert"
    /\ result.i >= 2
    /\ result.i <= Len(inflight.leaves)
    /\ result.latest = azks.latest_epoch
    /\ azks.latest_epoch >= 1
    /\ inflight.phase = "commit"

\* F(x, y): the fold of two child hashes in the order written
FoldTwo(x, y) == Hmerge(Hmerge(Hhash(<<>>), x), y)

\* the hash a leaf entry inserted at an epoch has in its parent's child slot
BoundLeafHash(entry, epoch) ==
    Hmerge(Hmerge_with_int(entry.hash, epoch), hash_label(entry.label))

\* the directory is new but for one batch of one leaf
FirstLeafOnly ==
    /\ prev = AzksNew
    /\ azks.latest_epoch = 1
    /\ Len(batch) = 1
    /\ outcome = "ok"

\* C21 as stated: the root hash after the single leaf, whose label starts
\* with bit 1, folds the leaf first and the dummy second
C21_ConcreteRootHashes_Original ==
    /\ hashes[1] = Hmerge(FoldTwo(DummyHash, DummyHash), hash_label(RootLabel))
    /\ FirstLeafOnly /\ batch[1].label[1] = 1 =>
           hashes[2] = Hmerge(FoldTwo(BoundLeafHash(batch[1], 1), DummyHash),
                              hash_label(RootLabel))

\* C21: h_0 folds two dummies; the root hash after a single leaf folds the
\* children by direction, so a leaf whose label starts with bit 1 is folded
\* second, after the dummy, and one whose label starts with bit 0 first
C21_ConcreteRootHashes ==
    /\ hashes[1] = Hmerge(FoldTwo(DummyHash, DummyHash), hash_label(RootLabel))
    /\ FirstLeafOnly /\ batch[1].label[1] = 1 =>
           hashes[2] = Hmerge(FoldTwo(DummyHash, BoundLeafHash(batch[1], 1)),
                              hash_label(RootLabel))
    /\ FirstLeafOnly /\ batch[1].label[1] = 0 =>
           hashes[2] = Hmerge(FoldTwo(BoundLeafHash(batch[1], 1), DummyHash),
                              hash_label(RootLabel))

\* the single leaf with a label that starts with bit 1 and value 0x11
C21_Witness ==
    /\ FirstLeafOnly
    /\ batch[1].label[1] = 1
    /\ batch[1].hash = Hmerge(Hhash(<<>>), Hhash(<<17>>))

LabelA == <<1, 0, 0, 0>>

LabelB == <<1, 0, 0, 1>>

\* leaf A was inserted at epoch 1 and leaf B at epoch 2, and nothing else
SplitScenario ==
    /\ azks.latest_epoch = 2
    /\ outcome = "ok"
    /\ Len(batch) = 1
    /\ batch[1].label = LabelB
    /\ {prev.db[l].label : l \in LeafNodes(prev)} = {LabelA}
    /\ \A l \in LeafNodes(prev) : get_birth_epoch(prev.db[l]) = 1

\* the child of the stored node at location l in direction d at the latest epoch
ChildOf(az, l, d) == get_child_at_epoch(az.st, az.db[l], az.latest_epoch, d).val

\* the root's child at direction 1 is an interior node whose label has
\* length n and whose two children are the leaves A and B
SplitUnderRoot(n) ==
    /\ ChildOf(azks, RootLocation, 1).dummy_marker = "Real"
    /\ is_interior(azks.db[ChildOf(azks, RootLocation, 1).location])
    /\ Len(azks.db[ChildOf(azks, RootLocation, 1).location].label) = n
    /\ {ChildOf(azks, ChildOf(azks, RootLocation, 1).location, d).label :
           d \in 0 .. ARITY - 1} = {LabelA, LabelB}
    /\ \A d \in 0 .. ARITY - 1 :
           /\ ChildOf(azks, ChildOf(azks, RootLocation, 1).location, d).dummy_marker
                  = "Real"
           /\ is_leaf(azks.db[ChildOf(azks, ChildOf(azks, RootLocation, 1).location,
                                      d).location])

\* C22 as stated: after A = 1000 at epoch 1 and B = 1001 at epoch 2 the
\* root's child at direction 1 is an interior node with a label of length 4
\* whose children are A and B
C22_SplitScenario_Original == SplitScenario => SplitUnderRoot(4)

\* C22: after A = 1000 at epoch 1 and B = 1001 at epoch 2 the root's child at
\* direction 1 is an interior node labelled with the common prefix 100, of
\* length 3, whose children are A at direction 0 and B at direction 1
C22_SplitScenario ==
    SplitScenario =>
        /\ SplitUnderRoot(3)
        /\ ChildOf(azks, RootLocation, 1).label = <<1, 0, 0>>
        /\ ChildOf(azks, ChildOf(azks, RootLocation, 1).location, 0).label = LabelA
        /\ ChildOf(azks, ChildOf(azks, RootLocation, 1).location, 1).label = LabelB

C22_Witness == SplitScenario /\ Cardinality(DOMAIN azks.db) = 4

-----------------------------------------------------------------------------
(* The quorum key and its shards (akd_quorum/src/crypto.rs).  A quorum key  *)
(* is the sequence of its QUORUM_KEY_NUM_PARTS parts of DATA_SIZE bytes,    *)
(* each part one number.  The secret sharing itself is the library's: a     *)
(* share names its position, the threshold it was made with and the part    *)
(* it protects; enough distinct shares of one part give the part back.      *)

QUORUM_KEY_NUM_PARTS == 8

\* the number of values of the type u8
U8 == 2 ^ 8

\* the two ways the program is built: overflow checks on, or off
Builds == {"debug", "release"}

\* a * b on u8: a debug build panics on overflow, a release build wraps
u8_mul(a, b, build) ==
    IF a * b < U8 THEN OkRes(a * b)
    ELSE IF build = "debug" THEN ErrRes("panic")
    ELSE OkRes((a * b) % U8)

\* a + b on u8, likewise
u8_add(a, b, build) ==
    IF a + b < U8 THEN OkRes(a + b)
    ELSE IF build = "debug" THEN ErrRes("panic")
    ELSE OkRes((a + b) % U8)

Some(v) == [some |-> TRUE, val |-> v]

None == [some |-> FALSE, val |-> <<>>]

\* count shares of data, any threshold of which restore it
create_shares(data, count, threshold) ==
    IF count < 1 \/ threshold < 1 \/ threshold > count
    THEN ErrRes("Sharding")
    ELSE OkRes([x \in 1..count |-> [x |-> x, k |-> threshold, data |-> data]])

\* the data the shares restore, None when they are too few or do not agree
combine_shares(shares) ==
    IF shares = <<>> THEN OkRes(None)
    ELSE IF /\ \A i \in DOMAIN shares :
                   /\ shares[i].k = shares[1].k
                   /\ shares[i].data = shares[1].data
            /\ Cardinality({shares[i].x : i \in DOMAIN shares}) >= shares[1].k
         THEN OkRes(Some(shares[1].data))
         ELSE OkRes(None)

build_from_vec_vec_vec(data) ==
    IF \E idx \in DOMAIN data : Len(data[idx]) # QUORUM_KEY_NUM_PARTS
    THEN ErrRes("Sharding")
    ELSE OkRes([idx \in DOMAIN data |-> [components |-> data[idx]]])

\* the loop of generate_shards over the parts of the key, and the formatting
ShardParts(quorum_key, num_shards, num_approvals) ==
    LET results == [i \in 1..QUORUM_KEY_NUM_PARTS |->
                        create_shares(quorum_key[i], num_shards, num_approvals)]
    IN  IF \E i \in 1..QUORUM_KEY_NUM_PARTS : results[i].err # "ok"
        THEN ErrRes("Sharding")
        ELSE IF \E i \in 1..QUORUM_KEY_NUM_PARTS :
                    \E idx \in 1..num_shards : idx \notin DOMAIN results[i].val
        THEN ErrRes("Sharding")
        ELSE build_from_vec_vec_vec(
                 [idx \in 1..num_shards |->
                      [i \in 1..QUORUM_KEY_NUM_PARTS |-> results[i].val[idx]]])

\* 3 * f + 1 and 2 * f + 1 in u8
ShardCount(times, f, build) ==
    LET product == u8_mul(times, f, build)
    IN  IF product.err # "ok" THEN product ELSE u8_add(product.val, 1, build)

generate_shards(quorum_key, f, build) ==
    LET num_shards == ShardCount(3, f, build)
        num_approvals == ShardCount(2, f, build)
    IN  IF num_shards.err # "ok" THEN num_shards
        ELSE IF num_approvals.err # "ok" THEN num_approvals
        ELSE ShardParts(quorum_key, num_shards.val, num_approvals.val)

reconstruct_shards(shards) ==
    LET some_key == [i \in 1..QUORUM_KEY_NUM_PARTS |->
                         combine_shares([s \in DOMAIN shards |->
                                             shards[s].components[i]])]
    IN  IF \E i \in 1..QUORUM_KEY_NUM_PARTS :
               some_key[i].err # "ok" \/ ~some_key[i].val.some
        THEN ErrRes("Sharding")
        ELSE OkRes([i \in 1..QUORUM_KEY_NUM_PARTS |-> some_key[i].val.val])

\* the quorum keys tried: two keys whose parts all differ
QuorumKeys ==
    { [i \in 1..QUORUM_KEY_NUM_PARTS |-> i],
      [i \in 1..QUORUM_KEY_NUM_PARTS |-> 2 * QUORUM_KEY_NUM_PARTS + 1 - i] }

\* up to this f every set of shards is tried, above it the sets below
MaxF == 1

\* the shards handed to reconstruct_shards, as positions among n shards:
\* the first m and the last m, for the sizes around the threshold
ShardSets(n, f) ==
    IF f <= MaxF THEN SUBSET (1..n)
    ELSE LET sizes == {0, 1, 2 * f, 2 * f + 1, n} \cap (0..n)
         IN  {1..m : m \in sizes} \cup {(n - m + 1)..n : m \in sizes}

\* the shards at the positions S, in their order
ShardsAt(shards, S) ==
    LET at == SelectSeq([i \in 1..Len(shards) |-> i], LAMBDA i : i \in S)
    IN  [j \in 1..Len(at) |-> shards[at[j]]]

InitShards ==
    /\ azks = AzksNew
    /\ hashes = <<get_root_hash(AzksNew).val>>
    /\ prev = AzksNew
    /\ batch = <<>>
    /\ outcome = "new"
    /\ audited = NoProof
    /\ result = "none"
    /\ inflight = Idle
    /\ \E k \in QuorumKeys, f \in 0..(U8 - 1), b \in Builds :
           quorum = [phase |-> "start", quorum_key |-> k, f |-> f, build |-> b,
                     generated |-> ErrRes("none"), chosen |-> {},
                     reconstructed |-> ErrRes("none")]
    /\ call = NoCall

GenerateShards ==
    /\ quorum.phase = "start"
    /\ quorum' = [quorum EXCEPT
                      !.phase = "generated",
                      !.generated = generate_shards(quorum.quorum_key, quorum.f,
                                                    quorum.build)]
    /\ UNCHANGED <<azks, hashes, prev, batch, outcome, audited, result, inflight,
                   call>>

ReconstructShards ==
    /\ quorum.phase = "generated"
    /\ quorum.generated.err = "ok"
    /\ \E S \in ShardSets(Len(quorum.generated.val), quorum.f) :
           quorum' = [quorum EXCEPT
                          !.phase = "reconstructed",
                          !.chosen = S,
                          !.reconstructed =
                              reconstruct_shards(ShardsAt(quorum.generated.val, S))]
    /\ UNCHANGED <<azks, hashes, prev, batch, outcome, audited, result, inflight,
                   call>>

NextShards == GenerateShards \/ ReconstructShards

SpecShards == InitShards /\ [][NextShards]_vars

\* C23: the shards of a key restore it exactly when enough of them are
\* combined: generate_shards(key, f) gives 3f+1 shards, any 2f+1 or more of
\* them give the key back, and any 2f or fewer give an error.
C23_ShardRoundTrip ==
    /\ quorum.phase \in {"generated", "reconstructed"} =>
           /\ quorum.generated.err = "ok"
           /\ Len(quorum.generated.val) = 3 * quorum.f + 1
    /\ quorum.phase = "reconstructed" =>
           /\ Cardinality(quorum.chosen) >= 2 * quorum.f + 1 =>
                  quorum.reconstructed = OkRes(quorum.quorum_key)
           /\ Cardinality(quorum.chosen) <= 2 * quorum.f =>
                  quorum.reconstructed.err # "ok"

\* C24: for every f of the type u8, generate_shards(key, f) returns 3f+1
\* shards made with the threshold 2f+1, each of QUORUM_KEY_NUM_PARTS
\* components, the two counts being computed without overflow.
C24_ShardCounts ==
    quorum.phase \in {"generated", "reconstructed"} =>
        /\ quorum.generated.err = "ok"
        /\ Len(quorum.generated.val) = 3 * quorum.f + 1
        /\ \A s \in DOMAIN quorum.generated.val :
               /\ Len(quorum.generated.val[s].components) = QUORUM_KEY_NUM_PARTS
               /\ \A i \in 1..QUORUM_KEY_NUM_PARTS :
                      quorum.generated.val[s].components[i].k = 2 * quorum.f + 1

\* the round trip where the counts fit the type: f up to 84
ShardRoundTripInRange ==
    (quorum.phase = "reconstructed" /\ 3 * quorum.f + 1 < U8) =>
        /\ Cardinality(quorum.chosen) >= 2 * quorum.f + 1 =>
               quorum.reconstructed = OkRes(quorum.quorum_key)
        /\ Cardinality(quorum.chosen) <= 2 * quorum.f =>
               quorum.reconstructed.err # "ok"

\* the wrapped counts: a release build gives shards with another threshold
ShardsWrapped ==
    /\ quorum.phase = "reconstructed"
    /\ 3 * quorum.f + 1 >= U8
    /\ quorum.reconstructed = OkRes(quorum.quorum_key)
    /\ Cardinality(quorum.chosen) <= 2 * quorum.f

-----------------------------------------------------------------------------
(* Single insertions.  insert_single_leaf and insert_single_leaf_without_   *)
(* hash are called on the root with a leaf node of the caller's making, at  *)
(* the epoch of the last insertion or at the next one; a tree is built with *)
(* hashing throughout or without it throughout.  inflight keeps what the    *)
(* call returned: the changeset and state store, and the root as the call   *)
(* left it.  A refused insertion ends the run.                              *)

\* labels of several lengths, some a prefix of another
SingleLabels ==
    {<<1>>, <<1, 1>>, <<0, 1>>, <<0, 0, 1>>, <<0, 0, 0, 1>>,
     <<0, 0, 0, 0, 0>>, <<0, 0, 0, 0, 1>>}

\* the leaves of a tree built by single insertions
MaxSingle == 4

\* what the call left behind: phase tells whether it hashed
Single(R, hashing, entry) ==
    [phase |-> IF hashing THEN "hashed" ELSE "unhashed",
     w |-> R.w, self |-> R.self, leaves |-> <<entry>>, i |-> 1]

\* the leaf node is made, then inserted from the root
SingleCall(W0, label, value, epoch, hashing) ==
    LET Rl == IF hashing
              THEN get_leaf_node(W0, label, W0.num_nodes, value, RootLocation, epoch)
              ELSE get_leaf_node_without_hashing(W0, label, W0.num_nodes,
                                                 LeafValue(value), RootLocation,
                                                 epoch)
    IN  insert_single_leaf_helper(Rl.w, tree_repr_node(W0, RootLocation), Rl.self,
                                  epoch, hashing)

SingleDone(R, epoch, hashing, entry) ==
    /\ azks' = CommitOrDrop([azks EXCEPT !.latest_epoch = epoch], R.w).azks
    /\ prev' = azks
    /\ batch' = <<entry>>
    /\ outcome' = R.w.err
    /\ inflight' = Single(R, hashing, entry)

\* one insertion of a leaf with a label of L and a value of V, with or
\* without hashing as modes allows, into a tree of fewer than n leaves
InsertSingleOf(L, V, n, modes) ==
    /\ Cardinality(LeafLabelsIn(azks)) < n
    /\ outcome \in {"new", "ok"}
    /\ \E l \in L, v \in V, hashing \in modes :
       \E epoch \in {azks.latest_epoch, azks.latest_epoch + 1} :
          /\ epoch >= 1
          /\ epoch <= MaxEpoch
          /\ inflight.phase \in {"idle", IF hashing THEN "hashed" ELSE "unhashed"}
          /\ SingleDone(SingleCall(tree_repr_get(WorldOf(azks), RootLocation),
                                   l, v, epoch, hashing),
                        epoch, hashing, Node(l, LeafValue(v)))
    /\ UNCHANGED <<hashes, audited, result, quorum, call>>

InsertSingleFrom(L, n, modes) == InsertSingleOf(L, Values, n, modes)

InsertSingle == InsertSingleFrom(SingleLabels, MaxSingle, BOOLEAN)

NextSingle == InsertSingle

SpecSingle == Init /\ [][NextSingle]_vars

(* Deeper trees, built by insert_single_leaf alone: leaves below one child  *)
(* of the root, three interior nodes above the deepest of them.             *)

DeepLabels ==
    {<<0, 1>>, <<0, 0, 1>>, <<0, 0, 0, 1>>, <<0, 0, 0, 0, 0>>, <<0, 0, 0, 0, 1>>}

\* the leaves of such a tree
MaxDeep == 5

InsertHashed == InsertSingleFrom(DeepLabels, MaxDeep, {TRUE})

NextHashed == InsertHashed

SpecHashed == Init /\ [][NextHashed]_vars

-----------------------------------------------------------------------------
(* Single insertions: the three cases of insert_single_leaf_helper *)

\* an insertion was called: prev is the tree before it, azks the tree after
SingleActed == inflight.phase \in {"hashed", "unhashed"}

\* the label of the leaf of the last insertion, its direction below the root
SingleLabel == batch[1].label

SingleDir == get_longest_common_prefix_and_dirs(RootLabel, SingleLabel)[2]

\* the root's child towards the leaf before the insertion
RootChildBefore ==
    get_child_at_epoch(prev.st, prev.db[RootLocation],
                       get_latest_epoch(prev.db[RootLocation]).val, SingleDir)

\* the insertion met the root with no child in the direction of the leaf
RootCase ==
    /\ SingleActed
    /\ RootChildBefore.err = "ok"
    /\ RootChildBefore.val.dummy_marker = "Dummy"

Occurrences(q, x) == Cardinality({i \in DOMAIN q : q[i] = x})

\* C25: when the root has no child in the direction of the leaf, the leaf
\* becomes a child of the root: its parent is the root, its location the
\* former num_nodes, num_nodes grows by one, the epoch is in root.epochs
\* once (appended only if absent), the root's state at the epoch has the
\* leaf as Real child in that direction and the other child as before, and
\* no other node is created.
C25_RootSpecialCase ==
    RootCase =>
        LET e == azks.latest_epoch
            loc == prev.num_nodes
            before == prev.db[RootLocation]
            after == azks.db[RootLocation]
            st_before == get_state_at_epoch(prev.st, before,
                                            get_latest_epoch(before).val).val
            st_after == get_state_map(azks.st, after, e)
        IN  /\ outcome = "ok"
            /\ DOMAIN azks.db = DOMAIN prev.db \cup {loc}
            /\ loc \notin DOMAIN prev.db
            /\ azks.num_nodes = prev.num_nodes + 1
            /\ azks.db[loc].label = SingleLabel
            /\ azks.db[loc].location = loc
            /\ azks.db[loc].parent = RootLocation
            /\ is_leaf(azks.db[loc])
            /\ InteriorNodes(azks) = InteriorNodes(prev)
            /\ Occurrences(after.epochs, e) = 1
            /\ after.epochs = IF e \in Elems(before.epochs) THEN before.epochs
                              ELSE Append(before.epochs, e)
            /\ inflight.self = after
            /\ st_after.err = "ok"
            /\ st_after.val.child_states[SingleDir].dummy_marker = "Real"
            /\ st_after.val.child_states[SingleDir].location = loc
            /\ st_after.val.child_states[SingleDir].label = SingleLabel
            /\ st_after.val.child_states[1 - SingleDir] =
                   st_before.child_states[1 - SingleDir]

\* the root took a leaf at an epoch it already had, beside another child
C25_Witness ==
    /\ RootCase
    /\ outcome = "ok"
    /\ azks.latest_epoch = prev.latest_epoch
    /\ ChildOf(azks, RootLocation, 1 - SingleDir).dummy_marker = "Real"

\* the node the descent from node l ends at: the first node whose label is
\* no proper prefix of the leaf's, or that has no child towards the leaf
RECURSIVE ReachedFrom(_, _, _)
ReachedFrom(az, l, label) ==
    LET dirs == get_longest_common_prefix_and_dirs(az.db[l].label, label)
        c == get_child_at_epoch(az.st, az.db[l], get_latest_epoch(az.db[l]).val,
                                dirs[2])
    IN  IF dirs[3] # DirNone \/ dirs[2] = DirNone THEN l
        ELSE IF c.err = "ok" /\ c.val.dummy_marker = "Real"
        THEN ReachedFrom(az, c.val.location, label)
        ELSE l

\* the node the last insertion reached, and the prefix and directions there
SingleReached == ReachedFrom(prev, RootLocation, SingleLabel)

SingleDirs ==
    get_longest_common_prefix_and_dirs(prev.db[SingleReached].label, SingleLabel)

\* the insertion reached a node with neither label a prefix of the other
SplitCase ==
    /\ SingleActed
    /\ SingleDirs[2] # DirNone
    /\ SingleDirs[3] # DirNone

\* the directions in which the latest state of node p points to location l
DirsTo(az, p, l) ==
    {d \in 0 .. ARITY - 1 :
        /\ LatestState(az, p).val.child_states[d].dummy_marker = "Real"
        /\ LatestState(az, p).val.child_states[d].location = l}

\* the child state in direction d is Real and names node l of the tree
Names(child, az, l) ==
    /\ child.dummy_marker = "Real"
    /\ child.location = l
    /\ child.label = az.db[l].label

\* C26: in the split case exactly one interior node is created; its label is
\* the longest common prefix, its parent the former parent of the node
\* reached; the node reached and the leaf are its children at dir_self and
\* dir_leaf and have it as parent; the former parent points to it where it
\* pointed to the node reached, and its other child is as before.
C26_SplitCase ==
    SplitCase =>
        LET e == azks.latest_epoch
            cur == SingleReached
            leaf == prev.num_nodes
            parent == prev.db[cur].parent
            made == InteriorNodes(azks) \ InteriorNodes(prev)
        IN  /\ outcome = "ok"
            /\ Cardinality(made) = 1
            /\ DOMAIN azks.db = DOMAIN prev.db \cup {leaf} \cup made
            /\ \A n \in made :
                  /\ azks.db[n].label = SingleDirs[1]
                  /\ azks.db[n].parent = parent
                  /\ azks.db[cur].parent = n
                  /\ azks.db[leaf].parent = n
                  /\ azks.db[leaf].label = SingleLabel
                  /\ get_state_map(azks.st, azks.db[n], e).err = "ok"
                  /\ Names(get_state_map(azks.st, azks.db[n], e).val
                               .child_states[SingleDirs[3]], azks, cur)
                  /\ Names(get_state_map(azks.st, azks.db[n], e).val
                               .child_states[SingleDirs[2]], azks, leaf)
                  /\ Cardinality(DirsTo(prev, parent, cur)) = 1
                  /\ get_state_map(azks.st, azks.db[parent], e).err = "ok"
                  /\ \A d \in DirsTo(prev, parent, cur) :
                        /\ Names(get_state_map(azks.st, azks.db[parent], e).val
                                     .child_states[d], azks, n)
                        /\ get_state_map(azks.st, azks.db[parent], e).val
                               .child_states[1 - d] =
                           LatestState(prev, parent).val.child_states[1 - d]

\* a leaf below an interior node was pushed down at a later epoch, hashing
C26_Witness ==
    /\ SplitCase
    /\ outcome = "ok"
    /\ inflight.phase = "hashed"
    /\ prev.db[SingleReached].parent # RootLocation
    /\ azks.latest_epoch > get_latest_epoch(prev.db[prev.db[SingleReached].parent]).val

\* the nodes the descent passes through: their label is a proper prefix of
\* the leaf's and they have a Real child towards it
RECURSIVE DescentPath(_, _, _)
DescentPath(az, l, label) ==
    LET dirs == get_longest_common_prefix_and_dirs(az.db[l].label, label)
        c == get_child_at_epoch(az.st, az.db[l], get_latest_epoch(az.db[l]).val,
                                dirs[2])
    IN  IF dirs[3] # DirNone \/ dirs[2] = DirNone THEN {}
        ELSE IF c.err = "ok" /\ c.val.dummy_marker = "Real"
        THEN {l} \cup DescentPath(az, c.val.location, label)
        ELSE {}

\* the insertion reached a node other than the root whose label is a proper
\* prefix of the leaf's and that has no child towards the leaf
DescentStuck ==
    /\ SingleActed
    /\ SingleReached # RootLocation
    /\ SingleDirs[3] = DirNone
    /\ SingleDirs[2] # DirNone
    /\ get_child_at_epoch(prev.st, prev.db[SingleReached],
                          get_latest_epoch(prev.db[SingleReached]).val,
                          SingleDirs[2]).val.dummy_marker = "Dummy"

\* some stored state names the label as a Real child
Attached(az, label) ==
    \E k \in DOMAIN az.st : \E d \in 0 .. ARITY - 1 :
        /\ az.st[k].child_states[d].dummy_marker = "Real"
        /\ az.st[k].child_states[d].label = label

\* the child of node l towards the label, in the latest state of l
ChildToward(az, l, label) ==
    LatestState(az, l).val.child_states[
        get_longest_common_prefix_and_dirs(az.db[l].label, label)[2]]

\* C27: a node other than the root whose label is a prefix of the leaf's and
\* that has no child towards the leaf makes the insertion return
\* CompressionError with the label of that node, and the leaf is not attached
\* to the tree; a node that has a Real child there hands the insertion to
\* that child: afterwards its child in that direction is the same child, or
\* the interior node made above that child, and the leaf is below it.
C27_DescentIntoChild ==
    /\ DescentStuck =>
          /\ outcome = "CompressionError"
          /\ inflight.w.err_label = prev.db[SingleReached].label
          /\ azks.db = prev.db
          /\ ~Attached(azks, SingleLabel)
    /\ (SingleActed /\ outcome = "ok") =>
          \A l \in DescentPath(prev, RootLocation, SingleLabel) :
              /\ ChildToward(azks, l, SingleLabel).dummy_marker = "Real"
              /\ ChildToward(azks, l, SingleLabel).location
                     \in PathToRoot(WorldOf(azks), prev.num_nodes)
              /\ \/ ChildToward(azks, l, SingleLabel).location =
                        ChildToward(prev, l, SingleLabel).location
                 \/ /\ ChildToward(azks, l, SingleLabel).location
                           \notin DOMAIN prev.db
                    /\ azks.db[ChildToward(prev, l, SingleLabel).location].parent =
                           ChildToward(azks, l, SingleLabel).location

\* a leaf stood where the new leaf had to pass
C27_Witness == DescentStuck /\ outcome = "CompressionError"

\* the insertion passed through two nodes on its way
C27_WitnessDescent ==
    /\ SingleActed
    /\ outcome = "ok"
    /\ Cardinality(DescentPath(prev, RootLocation, SingleLabel)) = 2

-----------------------------------------------------------------------------
(* Single insertions with hashing: what they leave on the path to the root *)

\* insert_single_leaf returned Ok
HashedInsert ==
    /\ SingleActed
    /\ inflight.phase = "hashed"
    /\ outcome = "ok"

\* the ancestors of the leaf of the last insertion, up to the root
SingleAncestors ==
    PathToRoot(WorldOf(azks), prev.num_nodes) \ {prev.num_nodes}

\* C28: after a successful insert_single_leaf at epoch e every ancestor of
\* the new leaf, the root included, has e as the last of its epochs and a
\* stored state at e; where the ancestor had no state at e before, the state
\* is its former latest state but for the child towards the leaf and the
\* value.
C28_UpwardPropagation ==
    HashedInsert =>
        \A a \in SingleAncestors :
            /\ get_latest_epoch(azks.db[a]) = OkRes(azks.latest_epoch)
            /\ <<azks.db[a].label, azks.latest_epoch>> \in DOMAIN azks.st
            /\ (/\ a \in DOMAIN prev.db
                /\ <<azks.db[a].label, azks.latest_epoch>> \notin DOMAIN prev.st) =>
                   \A d \in 0 .. ARITY - 1 :
                       \/ d = get_longest_common_prefix_and_dirs(
                                  azks.db[a].label, SingleLabel)[2]
                       \/ azks.st[<<azks.db[a].label, azks.latest_epoch>>]
                              .child_states[d] =
                          LatestState(prev, a).val.child_states[d]

-----------------------------------------------------------------------------
(* set_child_without_hash called on its own: on a node of a tree built by   *)
(* batches, on a node as HistoryTreeNode::new makes it (no epochs yet), or  *)
(* on such a node after its first epoch was pushed.                         *)

\* a label no node of the trees built here carries
FreshLabel == <<1, 1>>

ChildNodes(az) ==
    {az.db[l] : l \in DOMAIN az.db}
    \cup {NewNode(FreshLabel, az.num_nodes, RootLocation, "Interior")}
    \cup {push_epoch(NewNode(FreshLabel, az.num_nodes, RootLocation, "Interior"), e) :
            e \in 1 .. MaxEpoch}

\* the child states handed over: no child, and a child of some node
ChildStates ==
    {DummyChild,
     [dummy_marker |-> "Real", location |-> 7, label |-> <<1, 1, 1>>,
      hash_val |-> Hmerge(LeafValue(<<17>>), hash_label(<<1, 1, 1>>)),
      epoch_version |-> 1]}

Called(node, epoch, dir, child, R) ==
    [op |-> "set_child_without_hash", self |-> node, epoch |-> epoch,
     dir |-> dir, child |-> child, ret |-> R]

SetChild ==
    /\ call.op = "none"
    /\ \E node \in ChildNodes(azks), dir \in 0 .. ARITY - 1, child \in ChildStates :
       \E epoch \in {azks.latest_epoch, azks.latest_epoch + 1} :
          call' = Called(node, epoch, dir, child,
                         set_child_without_hash(WorldOf(azks), node, epoch, dir,
                                                child))
    /\ UNCHANGED <<azks, hashes, prev, batch, outcome, audited, result, inflight,
                   quorum>>

BuildTree == call.op = "none" /\ InsertAny

NextChild == BuildTree \/ SetChild

SpecChild == Init /\ [][NextChild]_vars

\* the state the call starts from: the state at the epoch if there is one,
\* else the state at the latest epoch of the node, else a fresh state
Baseline(st, node, epoch) ==
    IF <<node.label, epoch>> \in DOMAIN st THEN st[<<node.label, epoch>>]
    ELSE IF /\ Len(node.epochs) > 0
            /\ <<node.label, node.epochs[Len(node.epochs)]>> \in DOMAIN st
         THEN st[<<node.label, node.epochs[Len(node.epochs)]>>]
         ELSE NewNodeState

\* what the claim says of one call
SetChildDone ==
    /\ call.ret.w.err = "ok"
    /\ <<call.self.label, call.epoch>> \in DOMAIN call.ret.w.st
    /\ call.ret.w.st[<<call.self.label, call.epoch>>].child_states[call.dir] =
           call.child
    /\ call.ret.w.st[<<call.self.label, call.epoch>>].child_states[1 - call.dir] =
           Baseline(azks.st, call.self, call.epoch).child_states[1 - call.dir]
    /\ call.ret.w.st[<<call.self.label, call.epoch>>].value =
           Baseline(azks.st, call.self, call.epoch).value
    /\ call.ret.self.epochs =
           IF \/ <<call.self.label, call.epoch>> \in DOMAIN azks.st
              \/ get_latest_epoch(call.self) = OkRes(call.epoch)
           THEN call.self.epochs
           ELSE Append(call.self.epochs, call.epoch)

\* C29: set_child_without_hash(epoch, (Some(dir), child)) always leaves the
\* node with a state at the epoch that has the child at dir and the other
\* child and the value of the baseline: the state at the epoch, else a copy
\* of the state at the latest epoch, else a fresh state, also for a node
\* whose epochs are still empty; the epoch is appended when it was missing.
C29_SetChildAlwaysSucceeds ==
    call.op = "set_child_without_hash" => SetChildDone

\* the same for the nodes that list an epoch
SetChildListed ==
    (call.op = "set_child_without_hash" /\ Len(call.self.epochs) > 0) =>
        SetChildDone

\* the call on a node without epochs returned an error
SetChildRefused ==
    /\ call.op = "set_child_without_hash"
    /\ Len(call.self.epochs) = 0
    /\ call.ret.w.err = "NodeCreatedWithoutEpochs"

-----------------------------------------------------------------------------
(* The hashes on an updated path *)

\* the state of node a at epoch e has, for each Real child, the hash of that
\* child's stored value at its latest epoch merged with the hash of its
\* label, and as value the fold of the two child hashes, for the root merged
\* once with the hash of the root's label
MerkleNode(az, a, e) ==
    /\ <<az.db[a].label, e>> \in DOMAIN az.st
    /\ \A d \in 0 .. ARITY - 1 :
          az.st[<<az.db[a].label, e>>].child_states[d].dummy_marker = "Real" =>
              az.st[<<az.db[a].label, e>>].child_states[d].hash_val =
                  Hmerge(get_value(az.st,
                                   az.db[az.st[<<az.db[a].label, e>>]
                                             .child_states[d].location]).val,
                         hash_label(az.st[<<az.db[a].label, e>>]
                                        .child_states[d].label))
    /\ az.st[<<az.db[a].label, e>>].value =
           IF is_root(az.db[a])
           THEN Hmerge(FoldTwo(az.st[<<az.db[a].label, e>>].child_states[0].hash_val,
                               az.st[<<az.db[a].label, e>>].child_states[1].hash_val),
                       hash_label(az.db[a].label))
           ELSE FoldTwo(az.st[<<az.db[a].label, e>>].child_states[0].hash_val,
                        az.st[<<az.db[a].label, e>>].child_states[1].hash_val)

\* C30: after a successful insertion with hashing at epoch e, every node
\* above the new leaf has at e the hashes of its Real children as merge(the
\* child's value at its latest epoch, hash_label(child.label)), an interior
\* node has as value the left-to-right fold of its two child hashes, and the
\* root that fold merged once with the hash of its label.
C30_MerkleConsistency ==
    HashedInsert => \A a \in SingleAncestors : MerkleNode(azks, a, azks.latest_epoch)

\* the same after a completed batch, for the nodes above its new leaves
BatchMerkle ==
    (outcome = "ok" /\ batch # <<>>) =>
        \A l \in {x \in DOMAIN azks.db : is_leaf(azks.db[x]) /\ x \notin DOMAIN prev.db} :
            \A a \in PathToRoot(WorldOf(azks), l) \ {l} :
                MerkleNode(azks, a, azks.latest_epoch)

-----------------------------------------------------------------------------
(* The partition of the leaves made by an append-only proof *)

\* the leaf nodes of the directory born at or before epoch
LeavesBornBy(az, epoch) ==
    {l \in LeafNodes(az) : get_birth_epoch(az.db[l]) <= epoch}

\* the entries of a proof list that carry the label of node l
EntriesOf(az, list, l) ==
    {i \in 1 .. Len(list) : list[i].label = az.db[l].label}

\* the hash the parent of node l holds for it at epoch
SlotHashAt(az, l, epoch) ==
    {c.hash_val : c \in {x \in ChildStatesAt(az, epoch) : x.location = l}}

\* the proof for (start_epoch, end_epoch) lists each leaf born by end_epoch
\* once, on the side its birth epoch selects, lists nothing else, and each
\* entry carries the leaf's stored value, which the parent folds with the label
PartitionAt(az, start_epoch, end_epoch) ==
    LET P == SingleProof(az, start_epoch, end_epoch)
        Birth(l) == get_birth_epoch(az.db[l])
    IN  /\ \A l \in LeavesBornBy(az, end_epoch) :
            /\ Cardinality(EntriesOf(az, P.unchanged_nodes, l))
                   = (IF Birth(l) <= start_epoch THEN 1 ELSE 0)
            /\ Cardinality(EntriesOf(az, P.inserted, l))
                   = (IF Birth(l) > start_epoch THEN 1 ELSE 0)
            /\ \A e \in Elems(P.unchanged_nodes) \cup Elems(P.inserted) :
                   e.label = az.db[l].label =>
                       /\ e.hash = get_state_map(az.st, az.db[l], Birth(l)).val.value
                       /\ \E v \in Values :
                              e.hash = Hmerge_with_int(LeafValue(v), Birth(l))
                       /\ SlotHashAt(az, l, end_epoch)
                              = {Hmerge(e.hash, hash_label(e.label))}
        /\ \A e \in Elems(P.unchanged_nodes) \cup Elems(P.inserted) :
               e.label \in {az.db[l].label : l \in LeavesBornBy(az, end_epoch)}

\* C31: generate_append_only_proof places every leaf of the trie at end_epoch
\* in exactly one list, unchanged_nodes if its birth epoch is at most
\* start_epoch and inserted if it lies in (start_epoch, end_epoch]; no interior
\* node and no leaf born after end_epoch is listed, and each entry carries the
\* leaf's value before label folding
C31_ProofPartition ==
    \A start_epoch \in 0 .. MaxEpoch, end_epoch \in 0 .. MaxEpoch :
        start_epoch < end_epoch /\ end_epoch <= azks.latest_epoch =>
            /\ PartitionAt(azks, start_epoch, end_epoch)
            /\ end_epoch = start_epoch + 1 =>
                   generate_append_only_proof(azks, start_epoch, end_epoch).proofs
                       = <<SingleProof(azks, start_epoch, end_epoch)>>

\* a proof between two past epochs with leaves on both sides, taken from a
\* directory that has since gained a leaf the proof must leave out
C31_Witness ==
    /\ outcome = "ok"
    /\ azks.latest_epoch = 3
    /\ SingleProof(azks, 1, 2).unchanged_nodes # <<>>
    /\ SingleProof(azks, 1, 2).inserted # <<>>
    /\ LeafNodes(azks) \ LeavesBornBy(azks, 2) # {}

-----------------------------------------------------------------------------
(* The past of the tree under later insertions *)

\* what a reader of node l at a past epoch obtains: the state and the children
ReadNodeAt(az, l, epoch) ==
    <<get_state_at_epoch(az.st, az.db[l], epoch),
      [d \in 0 .. ARITY - 1 |-> get_child_at_epoch(az.st, az.db[l], epoch, d)]>>

\* the root hash computed at an epoch
RootHashAt(az, epoch) ==
    get_root_hash([az EXCEPT !.latest_epoch = epoch])

\* the epochs before the last insertion's at which node l existed
PastEpochs(l) ==
    {e \in 0 .. azks.latest_epoch - 1 : e >= get_birth_epoch(prev.db[l])}

\* C32: an insertion at epoch e leaves unchanged, for every node that existed
\* before and every epoch e' < e not before the node's birth, the results of
\* get_state_at_epoch(e') and get_child_at_epoch(e', dir); the root hash
\* computed at a past epoch is the same before and after a later batch, and
\* is the root hash that was published at that epoch
C32_HistoryImmutable ==
    /\ \A l \in DOMAIN prev.db : \A e \in PastEpochs(l) :
           /\ l \in DOMAIN azks.db
           /\ ReadNodeAt(azks, l, e) = ReadNodeAt(prev, l, e)
    /\ \A e \in 0 .. azks.latest_epoch - 1 :
           /\ RootHashAt(azks, e) = RootHashAt(prev, e)
           /\ RootHashAt(azks, e).err = "ok"
           /\ Len(hashes) = azks.latest_epoch + 1 => RootHashAt(azks, e).val = hashes[e + 1]

\* a batch at the third epoch that splits a slot filled at the first epoch,
\* below a root that has states at the two epochs before
C32_Witness ==
    /\ outcome = "ok"
    /\ azks.latest_epoch = 3
    /\ batch # <<>>
    /\ Len(prev.db[RootLocation].epochs) = 3
    /\ \E l \in InteriorNodes(azks) : l \notin DOMAIN prev.db
    /\ RootHashAt(azks, 3) # RootHashAt(azks, 2)
    /\ RootHashAt(azks, 2) # RootHashAt(azks, 1)

-----------------------------------------------------------------------------
(* Insertions of a label the tree already holds, with the same value or     *)
(* another one.                                                             *)

OtherValues == {<<17>>, <<18>>}

InsertAgain == InsertSingleOf(LeafLabels, OtherValues, MaxLeaves, BOOLEAN)

NextAgain == InsertAgain

SpecAgain == Init /\ [][NextAgain]_vars

\* the last insertion carried the label of a leaf that was in the tree
SameLabelInserted ==
    /\ SingleActed
    /\ SingleLabel \in LeafLabelsIn(prev)

\* the leaf of the tree before the insertion that has the inserted label
LeafLabelled == CHOOSE l \in LeafNodes(prev) : prev.db[l].label = SingleLabel

\* the labels of the nodes reachable from the root at the latest epoch are distinct
ReachableLabelsDistinct(az) ==
    \A a, b \in NodesAt(az, RootLocation, az.latest_epoch) :
        az.db[a].label = az.db[b].label => a = b

\* the insertion of a label already in the tree returned DirectionIsNone
SameLabelRefused == SameLabelInserted => outcome = "DirectionIsNone"

\* the insertion of a label already in the tree left the nodes, the states of
\* the interior nodes and the root as they were
SameLabelStructureKept ==
    SameLabelInserted =>
        /\ azks.db = prev.db
        /\ azks.num_nodes = prev.num_nodes
        /\ \A l \in DOMAIN prev.db : ~is_leaf(prev.db[l]) =>
               LatestState(azks, l) = LatestState(prev, l)

\* the insertion of a label already in the tree left the stored value of the
\* leaf that has the label as it was
SameLabelValueKept ==
    SameLabelInserted =>
        get_value(azks.st, azks.db[LeafLabelled]) = get_value(prev.st, prev.db[LeafLabelled])

\* C33: inserting a leaf whose label is the label of a leaf already in the
\* tree returns DirectionIsNone and alters neither the stored value of that
\* leaf nor the tree structure; no two nodes reachable from the root share a
\* label
C33_LabelUniqueness ==
    /\ SameLabelRefused
    /\ SameLabelStructureKept
    /\ SameLabelValueKept
    /\ ReachableLabelsDistinct(azks)

\* a label already in the tree was inserted again, with another value, at the
\* epoch of the leaf that has it
SameLabelOtherValue ==
    /\ SameLabelInserted
    /\ get_latest_epoch(prev.db[LeafLabelled]).val = azks.latest_epoch
    /\ batch[1].hash # get_value(prev.st, prev.db[LeafLabelled]).val

-----------------------------------------------------------------------------
(* The shape of the compressed trie *)

\* label a is a proper prefix of label b
ProperPrefix(a, b) == Len(a) < Len(b) /\ get_prefix(b, Len(a)) = a

\* node l sits in the child slot of its parent that the bit of its label
\* after the parent's label selects
InSlotOfParent(az, l) ==
    /\ az.db[l].parent \in DOMAIN az.db
    /\ ProperPrefix(ParentOf(az, l).label, az.db[l].label)
    /\ LET slot == ChildOf(az, az.db[l].parent,
                           az.db[l].label[Len(ParentOf(az, l).label) + 1])
       IN  /\ slot.dummy_marker = "Real"
           /\ slot.location = l
           /\ slot.label = az.db[l].label
           /\ az.db[slot.location].parent = ParentOf(az, l).location

\* the label of interior node l is the longest common prefix of the labels
\* of its two children
LabelIsCommonPrefix(az, l) ==
    /\ \A d \in 0 .. ARITY - 1 : ChildOf(az, l, d).dummy_marker = "Real"
    /\ get_longest_common_prefix_and_dirs(ChildOf(az, l, 0).label,
                                          ChildOf(az, l, 1).label)[1]
           = az.db[l].label

\* C34: after successful insertions of distinct full-width leaf labels, for
\* every non-root node N with parent P, P.label is a proper prefix of N.label,
\* N sits in the child slot of P indexed by the bit of N.label at position
\* P.label.length, N.parent is P.location, and the label of every interior
\* node is the longest common prefix of the labels of its two children
C34_CompressedTrieShape ==
    /\ \A l \in NonRootNodes(azks) : InSlotOfParent(azks, l)
    /\ \A l \in InteriorNodes(azks) : LabelIsCommonPrefix(azks, l)

\* three leaves under two interior nodes, one below the other, the upper one
\* made later, when the lower one was pushed down
C34_Witness ==
    /\ outcome = "ok"
    /\ Cardinality(LeafNodes(azks)) = 3
    /\ \E a, b \in InteriorNodes(azks) :
          /\ azks.db[b].parent = a
          /\ a > b
    /\ \A l \in NonRootNodes(azks) : InSlotOfParent(azks, l)

-----------------------------------------------------------------------------
(* The versions of the children recorded in the states of an epoch *)

\* the nodes that have a state stored at epoch
NodesWithStateAt(az, epoch) ==
    {l \in DOMAIN az.db : get_state_map(az.st, az.db[l], epoch).err = "ok"}

\* the Real child slots of the state of node l at epoch
RealSlotsAt(az, l, epoch) ==
    {c \in {get_state_map(az.st, az.db[l], epoch).val.child_states[d] :
               d \in 0 .. ARITY - 1} : c.dummy_marker = "Real"}

\* every Real child slot of a state stored at epoch carries the latest epoch
\* of the child it names
VersionsTracked(az, epoch) ==
    \A l \in NodesWithStateAt(az, epoch) : \A c \in RealSlotsAt(az, l, epoch) :
        c.epoch_version = get_latest_epoch(az.db[c.location]).val

\* C35: after a successful hashing insertion at epoch e, for every node P
\* with a state at e and every Real child slot of that state, the slot's
\* epoch_version is the last element of the child's epochs, also when P had
\* its state at e from an earlier insertion and the child was updated after
C35_ChildVersionTracking ==
    HashedInsert => VersionsTracked(azks, azks.latest_epoch)

====
